---------------------------- MODULE Spec2Model ----------------------------
(* A model of the getGSA de-identification and compliance-evaluation core: *)
(* the PII redaction service (src/src/services/redaction.ts) and the       *)
(* compliance evaluator generateChecklist (aiService).                     *)
(*                                                                         *)
(* A text is a sequence of one-character strings; offsets are 0-based as   *)
(* in JavaScript, so the character at offset i is t[i + 1].                *)
EXTENDS Integers, Sequences, FiniteSets, TLC

VARIABLES
    text,            \* redaction: the argument handed to redactPII / getPIIStatistics
    redactDone,      \* redaction: redactPII(text) has returned
    redactedText,    \* redaction: RedactionResult.redactedText
    matches,         \* redaction: RedactionResult.matches
    redactionCount,  \* redaction: RedactionResult.redactionCount
    statsDone,       \* redaction: getPIIStatistics(text) has returned
    stats,           \* redaction: the record getPIIStatistics returned
    againDone,       \* redaction: redactPII(redactedText) has returned
    redactedText2,   \* redaction: redactedText of the second pass
    matches2,        \* redaction: matches of the second pass
    verification,    \* redaction: what verifyRedaction(text, redactedText) returned
    lastIndex,       \* containsPII: lastIndex of the three shared /g patterns
    called,          \* containsPII: at least one call has returned
    arg,             \* containsPII: the text of the latest call
    ret,             \* containsPII: the value the latest call returned
    repeated,        \* containsPII: the latest call had the same text as the one before
    prevRet,         \* containsPII: the value the call before the latest returned
    documentType,    \* evaluator: generateChecklist's documentType argument
    fields,          \* evaluator: generateChecklist's fields argument
    relevantRules,   \* evaluator: generateChecklist's _relevantRules argument
    checklistDone,   \* evaluator: generateChecklist has returned
    checklist,       \* evaluator: the ChecklistItem[] it returned
    documents,       \* store: this.documents of the SimpleVectorStore
    collection,      \* store: the global collection is set
    queryCalls,      \* store: number of queryRules calls made
    queryArg,        \* store: query and nResults of the latest call
    queryResult,     \* store: what the latest call returned or threw
    firstCall,       \* store: arguments and result of the first call that returned
    documentRows,    \* analysis: the documents table, by request_id
    analysisRows,    \* analysis: the analysis_results table, by analysisId
    pc,              \* analysis: where each run is suspended
    run,             \* analysis: the locals of each run
    calls,           \* analysis: the capabilities each run has invoked, in order
    response,        \* analysis: the answer each run has sent
    llmDown,         \* analysis: a call of the LLM failed in the run
    uploads,         \* ingest: the text of the file each ingest request carried
    redactionRows,   \* ingest: the redactions table
    ingestResponse   \* ingest: the answer each ingest request got

vars == <<text, redactDone, redactedText, matches, redactionCount, statsDone,
          stats, againDone, redactedText2, matches2, lastIndex, called, arg,
          ret, repeated, prevRet, documentType, fields, relevantRules,
          checklistDone, checklist, documents, collection, queryCalls,
          queryArg, queryResult, firstCall, documentRows, analysisRows, pc,
          run, calls, response, llmDown, verification, uploads,
          redactionRows, ingestResponse>>

redactVars == <<text, redactDone, redactedText, matches, redactionCount,
                statsDone, stats, againDone, redactedText2, matches2,
                verification>>

containsVars == <<lastIndex, called, arg, ret, repeated, prevRet>>

checklistVars == <<documentType, fields, relevantRules, checklistDone,
                   checklist>>

retrieveVars == <<documents, collection, queryCalls, queryArg, queryResult,
                  firstCall>>

analyzeVars == <<documentRows, analysisRows, pc, run, calls, response, llmDown>>

ingestVars == <<uploads, redactionRows, ingestResponse>>

-----------------------------------------------------------------------------
(* Character classes of the three patterns.                                *)

Digits == {"0", "1", "2", "3", "4", "5", "6", "7", "8", "9"}

UpperCase == {"A", "B", "C", "D", "E", "F", "G", "H", "I", "J", "K", "L", "M",
              "N", "O", "P", "Q", "R", "S", "T", "U", "V", "W", "X", "Y", "Z"}

LowerCase == {"a", "b", "c", "d", "e", "f", "g", "h", "i", "j", "k", "l", "m",
              "n", "o", "p", "q", "r", "s", "t", "u", "v", "w", "x", "y", "z"}

\* \w
WordChars == UpperCase \cup LowerCase \cup Digits \cup {"_"}

\* \s, as far as ASCII goes
SpaceChars == {" ", "\t", "\n", "\r", "\f"}

\* [A-Za-z0-9._%+-]
EmailLocalChars == UpperCase \cup LowerCase \cup Digits \cup {".", "_", "%", "+", "-"}

\* [A-Za-z0-9.-]
EmailDomainChars == UpperCase \cup LowerCase \cup Digits \cup {".", "-"}

\* [A-Z|a-z]: the bar is a member of the class
EmailTldChars == UpperCase \cup LowerCase \cup {"|"}

\* [-.\s]
PhoneSepChars == {"-", "."} \cup SpaceChars

\* [-\s]
SsnSepChars == {"-"} \cup SpaceChars

\* The character at 0-based offset i, "" outside the text.
At(t, i) == IF i >= 0 /\ i < Len(t) THEN t[i + 1] ELSE ""

\* \b at offset i
WordBoundary(t, i) == (At(t, i - 1) \in WordChars) # (At(t, i) \in WordChars)

\* The length of the longest run of characters of class cls starting at i.
RECURSIVE RunLen(_, _, _)
RunLen(t, i, cls) == IF At(t, i) \in cls THEN 1 + RunLen(t, i + 1, cls) ELSE 0

\* \d{n} at offset i
DigitsAt(t, i, n) == \A k \in 0 .. (n - 1) : At(t, i + k) \in Digits

NoMatch == -1

\* The first alternative that matches, in the backtracking order.
FirstOf(a, b) == IF a # NoMatch THEN a ELSE b

\* An optional item x? of class cls at offset i: the offsets at which the rest
\* of the pattern is tried, in the backtracking order (the item present
\* first, then absent).
AfterOptional(t, i, cls) == IF At(t, i) \in cls THEN <<i + 1, i>> ELSE <<i>>

\* The first of the tries that matched.
FirstMatch(ends) ==
    IF \A k \in DOMAIN ends : ends[k] = NoMatch THEN NoMatch
    ELSE ends[CHOOSE k \in DOMAIN ends :
                  /\ ends[k] # NoMatch
                  /\ \A j \in 1 .. (k - 1) : ends[j] = NoMatch]

-----------------------------------------------------------------------------
(* email: /\b[A-Za-z0-9._%+-]+@[A-Za-z0-9.-]+\.[A-Z|a-z]{2,}\b/g           *)
(* Each operator returns the offset where the match ends, or NoMatch.      *)
(* The quantifiers are greedy: the longest repetition is tried first.      *)

\* [A-Z|a-z]{2,}\b with the repetition count n tried downwards from the run
RECURSIVE EmailTld(_, _, _)
EmailTld(t, p, n) ==
    IF n < 2 THEN NoMatch
    ELSE IF WordBoundary(t, p + n) THEN p + n
    ELSE EmailTld(t, p, n - 1)

\* [A-Za-z0-9.-]+\. then the top-level domain
RECURSIVE EmailDomain(_, _, _)
EmailDomain(t, d, n) ==
    IF n < 1 THEN NoMatch
    ELSE IF At(t, d + n) = "."
         THEN FirstOf(EmailTld(t, d + n + 1, RunLen(t, d + n + 1, EmailTldChars)),
                      EmailDomain(t, d, n - 1))
         ELSE EmailDomain(t, d, n - 1)

\* [A-Za-z0-9._%+-]+@ then the domain
RECURSIVE EmailLocal(_, _, _)
EmailLocal(t, s, n) ==
    IF n < 1 THEN NoMatch
    ELSE IF At(t, s + n) = "@"
         THEN FirstOf(EmailDomain(t, s + n + 1, RunLen(t, s + n + 1, EmailDomainChars)),
                      EmailLocal(t, s, n - 1))
         ELSE EmailLocal(t, s, n - 1)

EmailAt(t, s) ==
    IF WordBoundary(t, s) THEN EmailLocal(t, s, RunLen(t, s, EmailLocalChars))
    ELSE NoMatch

-----------------------------------------------------------------------------
(* phone: /(\+?1[-.\s]?)?\(?\d{3}\)?[-.\s]?\d{3}[-.\s]?\d{4}\b/g           *)

\* \d{4}\b
PhoneLast4(t, i) ==
    IF DigitsAt(t, i, 4) /\ WordBoundary(t, i + 4) THEN i + 4 ELSE NoMatch

\* [-.\s]?\d{4}\b: an optional item is tried present first, then absent
PhoneSep2(t, i) ==
    LET tries == AfterOptional(t, i, PhoneSepChars)
    IN  FirstMatch([k \in DOMAIN tries |-> PhoneLast4(t, tries[k])])

\* \d{3}[-.\s]?\d{4}\b
PhoneMid3(t, i) == IF DigitsAt(t, i, 3) THEN PhoneSep2(t, i + 3) ELSE NoMatch

\* [-.\s]?\d{3}...
PhoneSep1(t, i) ==
    LET tries == AfterOptional(t, i, PhoneSepChars)
    IN  FirstMatch([k \in DOMAIN tries |-> PhoneMid3(t, tries[k])])

\* \)?[-.\s]?\d{3}...
PhoneClose(t, i) ==
    LET tries == AfterOptional(t, i, {")"})
    IN  FirstMatch([k \in DOMAIN tries |-> PhoneSep1(t, tries[k])])

\* \d{3}\)?...
PhoneArea(t, i) == IF DigitsAt(t, i, 3) THEN PhoneClose(t, i + 3) ELSE NoMatch

\* \(?\d{3}...
PhoneOpen(t, i) ==
    LET tries == AfterOptional(t, i, {"("})
    IN  FirstMatch([k \in DOMAIN tries |-> PhoneArea(t, tries[k])])

\* the tail [-.\s]? of the country-code group, then the rest of the pattern
PhoneCountrySep(t, i) ==
    LET tries == AfterOptional(t, i, PhoneSepChars)
    IN  FirstMatch([k \in DOMAIN tries |-> PhoneOpen(t, tries[k])])

\* 1[-.\s]? of the country-code group
PhoneCountryOne(t, i) == IF At(t, i) = "1" THEN PhoneCountrySep(t, i + 1) ELSE NoMatch

\* (\+?1[-.\s]?) taken
PhoneCountry(t, i) ==
    LET tries == AfterOptional(t, i, {"+"})
    IN  FirstMatch([k \in DOMAIN tries |-> PhoneCountryOne(t, tries[k])])

\* the group is optional and greedy: with it first, then without it
PhoneAt(t, s) == FirstOf(PhoneCountry(t, s), PhoneOpen(t, s))

-----------------------------------------------------------------------------
(* ssn: /\b\d{3}[-\s]?\d{2}[-\s]?\d{4}\b/g                                 *)

\* \d{4}\b
SsnLast4(t, i) ==
    IF DigitsAt(t, i, 4) /\ WordBoundary(t, i + 4) THEN i + 4 ELSE NoMatch

\* [-\s]?\d{4}\b
SsnSep2(t, i) ==
    LET tries == AfterOptional(t, i, SsnSepChars)
    IN  FirstMatch([k \in DOMAIN tries |-> SsnLast4(t, tries[k])])

\* \d{2}[-\s]?\d{4}\b
SsnMid2(t, i) == IF DigitsAt(t, i, 2) THEN SsnSep2(t, i + 2) ELSE NoMatch

\* [-\s]?\d{2}...
SsnSep1(t, i) ==
    LET tries == AfterOptional(t, i, SsnSepChars)
    IN  FirstMatch([k \in DOMAIN tries |-> SsnMid2(t, tries[k])])

SsnAt(t, s) ==
    IF WordBoundary(t, s) /\ DigitsAt(t, s, 3) THEN SsnSep1(t, s + 3) ELSE NoMatch

-----------------------------------------------------------------------------
(* PII_PATTERNS and REDACTION_LABELS, in Object.entries order.             *)

PIITypes == <<"email", "phone", "ssn">>

PII_PATTERNS(type, t, s) ==
    CASE type = "email" -> EmailAt(t, s)
      [] type = "phone" -> PhoneAt(t, s)
      [] type = "ssn" -> SsnAt(t, s)

REDACTION_LABELS(type) ==
    CASE type = "email" ->
            <<"[", "R", "E", "D", "A", "C", "T", "E", "D", "_", "E", "M", "A", "I", "L", "]">>
      [] type = "phone" ->
            <<"[", "R", "E", "D", "A", "C", "T", "E", "D", "_", "P", "H", "O", "N", "E", "]">>
      [] type = "ssn" ->
            <<"[", "R", "E", "D", "A", "C", "T", "E", "D", "_", "S", "S", "N", "]">>

\* RegExp.prototype.exec of a /g pattern: the leftmost match starting at or
\* after lastIndex; index = NoMatch when there is none.
RECURSIVE RegExpExec(_, _, _)

\* The attempt at offset from ended at e: a match, or on to the next offset.
ExecAttempt(type, t, from, e) ==
    IF e # NoMatch THEN [index |-> from, end |-> e]
    ELSE RegExpExec(type, t, from + 1)

RegExpExec(type, t, from) ==
    IF from > Len(t) THEN [index |-> NoMatch, end |-> NoMatch]
    ELSE ExecAttempt(type, t, from, PII_PATTERNS(type, t, from))

-----------------------------------------------------------------------------
(* redactPII                                                               *)

\* String.prototype.substring(a, b): both offsets are clamped to the string
\* and swapped when a > b.
Clamp(s, a) == IF a < 0 THEN 0 ELSE IF a > Len(s) THEN Len(s) ELSE a

Substring(s, a, b) ==
    LET ca == Clamp(s, a)
        cb == Clamp(s, b)
        lo == IF ca <= cb THEN ca ELSE cb
        hi == IF ca <= cb THEN cb ELSE ca
    IN  SubSeq(s, lo + 1, hi)

\* The code of a character, for the digest; the characters outside the table
\* share the code 0.
CharCodes == <<"0", "1", "2", "3", "4", "5", "6", "7", "8", "9", "a", "b",
               "c", "o", "@", ".", "-", " ", "+", "(", ")", "x">>

CharCode(c) ==
    IF \E k \in 1 .. Len(CharCodes) : CharCodes[k] = c
    THEN CHOOSE k \in 1 .. Len(CharCodes) : CharCodes[k] = c
    ELSE 0

\* The digest has a fixed width, whatever the length of the value.
HashWidth == 65536

\* hashValue: a one-way digest of the value, of fixed width (sha256 in the
\* code; a polynomial digest of the character codes stands in for it).
RECURSIVE hashValue(_)
hashValue(value) ==
    IF value = <<>> THEN 7
    ELSE (hashValue(SubSeq(value, 1, Len(value) - 1)) * 31
          + CharCode(value[Len(value)])) % HashWidth

\* The while loop over regex.exec(text): one RedactionMatch per match, in the
\* order found. The field index is a history field: match.index as exec
\* reported it, which the code's record loses when start is adjusted.
RECURSIVE ExecLoop(_, _, _)

\* tempMatches.push({type, value, start, end, hash})
NewMatch(type, value, start) ==
    [type |-> type, value |-> value, start |-> start,
     end |-> start + Len(value), hash |-> hashValue(value), index |-> start]

\* The loop body for the exec result m, then the loop from the match's end.
ExecLoopBody(type, t, m) ==
    IF m.index = NoMatch THEN <<>>
    ELSE <<NewMatch(type, SubSeq(t, m.index + 1, m.end), m.index)>>
         \o ExecLoop(type, t, m.end)

ExecLoop(type, t, from) == ExecLoopBody(type, t, RegExpExec(type, t, from))

\* Array.prototype.sort with (a, b) => b.start - a.start (desc) or
\* (a, b) => a.start - b.start: a stable sort.
Compare(a, b, desc) == IF desc THEN b.start - a.start ELSE a.start - b.start

\* x put behind every element that does not sort after it
RECURSIVE InsertSorted(_, _, _)
InsertSorted(x, sorted, desc) ==
    IF sorted = <<>> THEN <<x>>
    ELSE IF Compare(sorted[Len(sorted)], x, desc) <= 0 THEN Append(sorted, x)
    ELSE Append(InsertSorted(x, SubSeq(sorted, 1, Len(sorted) - 1), desc),
                sorted[Len(sorted)])

RECURSIVE SortByStart(_, _)
SortByStart(items, desc) ==
    IF items = <<>> THEN <<>>
    ELSE InsertSorted(items[Len(items)],
                      SortByStart(SubSeq(items, 1, Len(items) - 1), desc), desc)

\* One "Apply redactions" step: the splice uses the offsets found in the
\* original text, on the text as redacted so far; the record's start is
\* shifted by the adjustment accumulated over the earlier categories and its
\* end is set from the label.
ApplyRedaction(acc, matchItem, label) ==
    [redactedText |-> Substring(acc.redactedText, 0, matchItem.start)
                      \o label
                      \o Substring(acc.redactedText, matchItem.end,
                                   Len(acc.redactedText)),
     matches |-> Append(acc.matches,
                        [matchItem EXCEPT
                            !.start = matchItem.start + acc.offsetAdjustment,
                            !.end = matchItem.start + acc.offsetAdjustment
                                    + Len(label)]),
     offsetAdjustment |-> acc.offsetAdjustment]

\* "Apply redactions": for (const matchItem of tempMatches)
RECURSIVE ApplyRedactions(_, _)
ApplyRedactions(acc, tempMatches) ==
    IF tempMatches = <<>> THEN acc
    ELSE ApplyRedactions(ApplyRedaction(acc, Head(tempMatches),
                                        REDACTION_LABELS(Head(tempMatches).type)),
                         Tail(tempMatches))

\* "Update offset adjustment": for (const matchItem of tempMatches)
RECURSIVE UpdateOffset(_, _)
UpdateOffset(acc, tempMatches) ==
    IF tempMatches = <<>> THEN acc
    ELSE UpdateOffset([acc EXCEPT !.offsetAdjustment =
                          acc.offsetAdjustment
                          + Len(REDACTION_LABELS(Head(tempMatches).type))
                          - Len(Head(tempMatches).value)],
                      Tail(tempMatches))

\* The two loops over the sorted tempMatches of one category.
ProcessMatches(acc, tempMatches) ==
    UpdateOffset(ApplyRedactions(acc, tempMatches), tempMatches)

\* One round of the loop over PII_PATTERNS: find, sort descending, apply.
ProcessType(acc, type, t) ==
    ProcessMatches(acc, SortByStart(ExecLoop(type, t, 0), TRUE))

RECURSIVE ProcessTypes(_, _, _)
ProcessTypes(acc, k, t) ==
    IF k > Len(PIITypes) THEN acc
    ELSE ProcessTypes(ProcessType(acc, PIITypes[k], t), k + 1, t)

\* matches.sort((a, b) => a.start - b.start) and the returned object
RedactionResult(acc) ==
    [redactedText |-> acc.redactedText,
     matches |-> SortByStart(acc.matches, FALSE),
     redactionCount |-> Len(acc.matches)]

redactPII(t) ==
    RedactionResult(ProcessTypes([redactedText |-> t, matches |-> <<>>,
                                  offsetAdjustment |-> 0], 1, t))

\* getPIIStatistics as it would be with patterns that lack the g flag:
\* text.match then reports the first match only.
getPIIStatisticsFirstMatchOnly(t) ==
    [type \in {PIITypes[k] : k \in 1 .. Len(PIITypes)} |->
        IF ExecLoop(type, t, 0) = <<>> THEN 0 ELSE 1]

\* getPIIStatistics: text.match(regex) of a /g pattern returns every match.
getPIIStatistics(t) ==
    [type \in {PIITypes[k] : k \in 1 .. Len(PIITypes)} |->
        Len(ExecLoop(type, t, 0))]

\* matches.map(m => `${type}: ${m}`) for the matches of one pattern: the
\* category and the matched literal of each
RemainingOfType(type, t, found) ==
    [k \in DOMAIN found |-> [type |-> type, literal |-> found[k].value]]

\* the loop of verifyRedaction over PII_PATTERNS from the k-th category on
RECURSIVE RemainingFrom(_, _)
RemainingFrom(k, t) ==
    IF k > Len(PIITypes) THEN <<>>
    ELSE RemainingOfType(PIITypes[k], t, ExecLoop(PIITypes[k], t, 0))
         \o RemainingFrom(k + 1, t)

\* what verifyRedaction returns for the list of remaining matches
VerificationOf(remaining) ==
    [isComplete |-> Len(remaining) = 0, remainingPII |-> remaining]

\* verifyRedaction: the original text is not looked at
verifyRedaction(_originalText, redacted) == VerificationOf(RemainingFrom(1, redacted))

-----------------------------------------------------------------------------
(* The redaction service called on one text: redactPII(text),              *)
(* getPIIStatistics(text) and a second redactPII on the redacted text.     *)

\* The pieces the input texts are made of: an email address, a phone number,
\* a social security number and two separators.
Chunks ==
    { <<"a", "@", "b", ".", "c", "o">>,
      <<"5", "5", "5", "1", "2", "3", "4", "5", "6", "7">>,
      <<"1", "2", "3", "4", "5", "6", "7", "8", "9">>,
      <<" ">>,
      <<"-">> }

\* The number of pieces of an input text, at most.
MaxChunks == 3

RECURSIVE TextsOf(_)
TextsOf(n) ==
    IF n = 0 THEN {<<>>}
    ELSE LET shorter == TextsOf(n - 1)
         IN  shorter \cup {p \o c : p \in shorter, c \in Chunks}

Texts == TextsOf(MaxChunks)

NoStats == [type \in {PIITypes[k] : k \in 1 .. Len(PIITypes)} |-> 0]

\* verifyRedaction not called
NotVerified == [done |-> FALSE, isComplete |-> FALSE, remainingPII |-> <<>>]

\* no ingest request and no table of the ingest route in play
IngestIdle ==
    /\ uploads = <<>>
    /\ redactionRows = <<>>
    /\ ingestResponse = <<>>

\* no analysis run and no table of the analyze route in play
AnalyzeIdle ==
    /\ documentRows = <<>>
    /\ analysisRows = <<>>
    /\ pc = <<>>
    /\ run = <<>>
    /\ calls = <<>>
    /\ response = <<>>
    /\ llmDown = <<>>

\* the store before initializeVectorStore()
RetrieveIdle ==
    /\ documents = <<>>
    /\ collection = FALSE
    /\ queryCalls = 0
    /\ queryArg = [query |-> <<>>, nResults |-> 0]
    /\ queryResult = [threw |-> FALSE, ids |-> <<>>, metadatas |-> <<>>,
                      distances |-> <<>>]
    /\ firstCall = [made |-> FALSE,
                    arg |-> [query |-> <<>>, nResults |-> 0],
                    result |-> [threw |-> FALSE, ids |-> <<>>, metadatas |-> <<>>,
                                distances |-> <<>>]]

ContainsIdle ==
    /\ lastIndex = [type \in {PIITypes[k] : k \in 1 .. Len(PIITypes)} |-> 0]
    /\ called = FALSE
    /\ arg = <<>>
    /\ ret = FALSE
    /\ repeated = FALSE
    /\ prevRet = FALSE

ChecklistIdle ==
    /\ documentType = "unknown"
    /\ fields = <<>>
    /\ relevantRules = <<>>
    /\ checklistDone = FALSE
    /\ checklist = <<>>

RedactIdle ==
    /\ text = <<>>
    /\ redactDone = FALSE
    /\ redactedText = <<>>
    /\ matches = <<>>
    /\ redactionCount = 0
    /\ statsDone = FALSE
    /\ stats = NoStats
    /\ againDone = FALSE
    /\ redactedText2 = <<>>
    /\ matches2 = <<>>
    /\ verification = NotVerified

InitRedact ==
    /\ text \in Texts
    /\ redactDone = FALSE
    /\ redactedText = <<>>
    /\ matches = <<>>
    /\ redactionCount = 0
    /\ statsDone = FALSE
    /\ stats = NoStats
    /\ againDone = FALSE
    /\ redactedText2 = <<>>
    /\ matches2 = <<>>
    /\ verification = NotVerified
    /\ ContainsIdle
    /\ ChecklistIdle
    /\ RetrieveIdle
    /\ AnalyzeIdle
    /\ IngestIdle

\* the caller's copy of a RedactionResult
Returned(result) ==
    /\ redactedText' = result.redactedText
    /\ matches' = result.matches
    /\ redactionCount' = result.redactionCount

\* the caller's copy of the second pass's RedactionResult
ReturnedAgain(result) ==
    /\ redactedText2' = result.redactedText
    /\ matches2' = result.matches

\* const result = redactPII(text)
RedactPII ==
    /\ ~redactDone
    /\ Returned(redactPII(text))
    /\ redactDone' = TRUE
    /\ UNCHANGED <<text, statsDone, stats, againDone, redactedText2, matches2>>
    /\ UNCHANGED <<containsVars, checklistVars, retrieveVars, analyzeVars,
                   ingestVars, verification>>

\* const stats = getPIIStatistics(text)
GetPIIStatistics ==
    /\ ~statsDone
    /\ stats' = getPIIStatistics(text)
    /\ statsDone' = TRUE
    /\ UNCHANGED <<text, redactDone, redactedText, matches, redactionCount,
                   againDone, redactedText2, matches2>>
    /\ UNCHANGED <<containsVars, checklistVars, retrieveVars, analyzeVars,
                   ingestVars, verification>>

\* redactPII(result.redactedText)
RedactAgain ==
    /\ redactDone
    /\ ~againDone
    /\ ReturnedAgain(redactPII(redactedText))
    /\ againDone' = TRUE
    /\ UNCHANGED <<text, redactDone, redactedText, matches, redactionCount,
                   statsDone, stats>>
    /\ UNCHANGED <<containsVars, checklistVars, retrieveVars, analyzeVars,
                   ingestVars, verification>>

\* verifyRedaction(text, redactedText) on the result of redactPII(text)
VerifyRedaction ==
    /\ redactDone
    /\ ~verification.done
    /\ verification' = [done |-> TRUE,
                        isComplete |-> verifyRedaction(text, redactedText).isComplete,
                        remainingPII |-> verifyRedaction(text, redactedText).remainingPII]
    /\ UNCHANGED <<text, redactDone, redactedText, matches, redactionCount,
                   statsDone, stats, againDone, redactedText2, matches2>>
    /\ UNCHANGED <<containsVars, checklistVars, retrieveVars, analyzeVars,
                   ingestVars>>

NextRedact == RedactPII \/ GetPIIStatistics \/ RedactAgain \/ VerifyRedaction

SpecRedact == InitRedact /\ [][NextRedact]_vars

-----------------------------------------------------------------------------
(* Claims about redactPII and getPIIStatistics, under SpecRedact.          *)

TypeSet == {PIITypes[k] : k \in 1 .. Len(PIITypes)}

\* needle occurs in hay as a contiguous substring
Occurs(needle, hay) ==
    \E i \in 0 .. (Len(hay) - Len(needle)) :
        SubSeq(hay, i + 1, i + Len(needle)) = needle

\* the number of offsets of hay at which needle occurs
CountOccurrences(needle, hay) ==
    Cardinality({i \in 0 .. (Len(hay) - Len(needle)) :
                    SubSeq(hay, i + 1, i + Len(needle)) = needle})

\* the number of matches of a category in a match list
CountType(ms, type) == Cardinality({k \in 1 .. Len(ms) : ms[k].type = type})

\* the span [index, index + length) each match had in the original text
SpanEnd(m) == m.index + Len(m.value)

NonOverlapping(ms) ==
    \A i, j \in 1 .. Len(ms) :
        i # j => (SpanEnd(ms[i]) <= ms[j].index \/ SpanEnd(ms[j]) <= ms[i].index)

\* One left-to-right rebuild of t from offset i: a matched span is replaced by
\* the placeholder of its category, any other character is kept.
RECURSIVE Rebuild(_, _, _)
Rebuild(t, i, ms) ==
    IF i >= Len(t) THEN <<>>
    ELSE IF \E k \in 1 .. Len(ms) : ms[k].index = i
         THEN LET k == CHOOSE k \in 1 .. Len(ms) : ms[k].index = i
              IN  REDACTION_LABELS(ms[k].type) \o Rebuild(t, SpanEnd(ms[k]), ms)
         ELSE <<t[i + 1]>> \o Rebuild(t, i + 1, ms)

\* C1: no literal that redactPII matched occurs anywhere in the redacted text.
C1_NoLiteralInRedactedText ==
    redactDone =>
        \A k \in 1 .. Len(matches) : ~Occurs(matches[k].value, redactedText)

\* C2: when the matches of all categories are pairwise non-overlapping, the
\* redacted text is the single left-to-right rebuild of the original text with
\* every matched span replaced by the placeholder of its category.
C2_EqualsSinglePassRebuild ==
    (redactDone /\ NonOverlapping(matches)) =>
        redactedText = Rebuild(text, 0, matches)

\* C3: the start and end of every returned match index the original text, and
\* the original text between them is the matched literal.
C3_OffsetsIndexOriginalText ==
    redactDone =>
        \A k \in 1 .. Len(matches) :
            /\ 0 <= matches[k].start
            /\ matches[k].start <= matches[k].end
            /\ matches[k].end <= Len(text)
            /\ SubSeq(text, matches[k].start + 1, matches[k].end) = matches[k].value

\* C4: a returned match record does not hold the matched literal (the span of
\* the original text the pattern matched) outside its hash: of the fields
\* type, value, start and end only value is a string, so it is the one that
\* could.
C4_LiteralDiscardedFromRecord ==
    redactDone =>
        \A k \in 1 .. Len(matches) :
            matches[k].value #
                SubSeq(text, matches[k].index + 1,
                       PII_PATTERNS(matches[k].type, text, matches[k].index))

\* C5: redacting the redacted text again returns the same text and no match.
C5_RedactionIdempotent ==
    againDone => (redactedText2 = redactedText /\ matches2 = <<>>)

\* C6: for a text with matches of more than one category, the returned match
\* list is in ascending order of the offsets the matches had in the original
\* text.
C6_SortedByOriginalStart ==
    (redactDone /\ Cardinality({matches[k].type : k \in 1 .. Len(matches)}) > 1) =>
        \A i, j \in 1 .. Len(matches) :
            i < j => matches[i].index <= matches[j].index

\* C7: for every category, the redacted text holds as many placeholders of the
\* category as the match list holds matches of it.
C7_PlaceholderCountsMatchCategories ==
    redactDone =>
        \A type \in TypeSet :
            CountOccurrences(REDACTION_LABELS(type), redactedText)
                = CountType(matches, type)

\* C8: redactionCount is the length of the match list, getPIIStatistics(text)
\* gives for every category the number of matches of that category in
\* redactPII(text).matches, and getPIIStatistics alone replaces nothing.
C8_CountsAgree ==
    /\ redactDone => redactionCount = Len(matches)
    /\ (redactDone /\ statsDone) =>
           \A type \in TypeSet : stats[type] = CountType(matches, type)
    /\ (statsDone /\ ~redactDone) => (redactedText = <<>> /\ matches = <<>>)

\* C8 witness: both functions have returned for a text with matches of two
\* categories, an email address and a phone number.
C8_Witness ==
    /\ redactDone
    /\ statsDone
    /\ stats["email"] = 1
    /\ stats["phone"] = 1
    /\ redactionCount = 2


-----------------------------------------------------------------------------
(* containsPII: the three patterns of PII_PATTERNS are shared /g RegExp    *)
(* objects, and RegExp.prototype.test starts at their lastIndex.           *)

\* The loop of containsPII from the k-th pattern on, with li the lastIndex of
\* the three patterns. test() of a /g pattern searches from lastIndex; a match
\* moves lastIndex to its end, a failure resets lastIndex to 0.
RECURSIVE containsPII(_, _, _)

\* pattern.test(text) of the k-th pattern gave the exec result m
PatternTested(li, t, k, m) ==
    IF m.index # NoMatch
    THEN [ret |-> TRUE, lastIndex |-> [li EXCEPT ![PIITypes[k]] = m.end]]
    ELSE containsPII([li EXCEPT ![PIITypes[k]] = 0], t, k + 1)

containsPII(li, t, k) ==
    IF k > Len(PIITypes) THEN [ret |-> FALSE, lastIndex |-> li]
    ELSE PatternTested(li, t, k, RegExpExec(PIITypes[k], t, li[PIITypes[k]]))

\* The number of pieces of a text handed to containsPII, at most.
MaxProbeChunks == 2

ProbeTexts == TextsOf(MaxProbeChunks)

InitContains ==
    /\ ContainsIdle
    /\ RedactIdle
    /\ ChecklistIdle
    /\ RetrieveIdle
    /\ AnalyzeIdle
    /\ IngestIdle

\* the value returned and the lastIndex the call leaves behind
ContainsReturned(r) ==
    /\ ret' = r.ret
    /\ lastIndex' = r.lastIndex

\* containsPII(t)
ContainsPII(t) ==
    /\ ContainsReturned(containsPII(lastIndex, t, 1))
    /\ called' = TRUE
    /\ arg' = t
    /\ repeated' = (called /\ arg = t)
    /\ prevRet' = ret
    /\ UNCHANGED <<redactVars, checklistVars, retrieveVars, analyzeVars, ingestVars>>

NextContains == \E t \in ProbeTexts : ContainsPII(t)

SpecContains == InitContains /\ [][NextContains]_vars

\* at least one of the three patterns matches somewhere in t
AnyPatternMatches(t) ==
    \E type \in TypeSet : RegExpExec(type, t, 0).index # NoMatch

\* C9: whatever containsPII calls came before, containsPII(text) is true
\* exactly when one of the three patterns matches somewhere in text, and a
\* call repeated with the same text returns the same value again.
C9_ContainsPIIIsPure ==
    called =>
        /\ ret = AnyPatternMatches(arg)
        /\ repeated => ret = prevRet


-----------------------------------------------------------------------------
(* generateChecklist(fields, documentType, _relevantRules)                 *)
(*                                                                         *)
(* A JavaScript value is a record with its type in t and its content in v; *)
(* a field the map does not hold reads as undefined.                       *)

Undefined == [t |-> "undefined"]
Null == [t |-> "null"]
Str(chars) == [t |-> "string", v |-> chars]
Num(n) == [t |-> "number", v |-> n]
Arr(items) == [t |-> "array", v |-> items]

\* ToBoolean
Truthy(x) ==
    CASE x.t = "undefined" -> FALSE
      [] x.t = "null" -> FALSE
      [] x.t = "string" -> x.v # <<>>
      [] x.t = "number" -> x.v # 0
      [] x.t = "array" -> TRUE

DigitChars == <<"0", "1", "2", "3", "4", "5", "6", "7", "8", "9">>

\* the decimal digits of a natural number
RECURSIVE NatToString(_)
NatToString(n) ==
    IF n < 10 THEN <<DigitChars[n + 1]>>
    ELSE NatToString(n \div 10) \o <<DigitChars[(n % 10) + 1]>>

\* String(x) of a string, an integer or null
JsString(x) ==
    CASE x.t = "string" -> x.v
      [] x.t = "number" ->
            IF x.v < 0 THEN <<"-">> \o NatToString(0 - x.v) ELSE NatToString(x.v)
      [] x.t = "null" -> <<"n", "u", "l", "l">>
      [] x.t = "undefined" -> <<"u", "n", "d", "e", "f", "i", "n", "e", "d">>

\* /^[A-Z0-9]{12}$/.test(uei)
ueiPattern(uei) ==
    LET chars == JsString(uei)
    IN  /\ Len(chars) = 12
        /\ \A k \in 1 .. 12 : chars[k] \in (UpperCase \cup Digits)

\* .replace(/[^0-9.]/g, ''): every character but digits and dots is dropped
RECURSIVE StripNonNumeric(_)
StripNonNumeric(chars) ==
    IF chars = <<>> THEN <<>>
    ELSE IF Head(chars) \in (Digits \cup {"."})
         THEN <<Head(chars)>> \o StripNonNumeric(Tail(chars))
         ELSE StripNonNumeric(Tail(chars))

DigitValue(c) == CHOOSE d \in 0 .. 9 : DigitChars[d + 1] = c

\* the value of a run of decimal digits
RECURSIVE DigitsValue(_)
DigitsValue(chars) ==
    IF chars = <<>> THEN 0
    ELSE DigitsValue(SubSeq(chars, 1, Len(chars) - 1)) * 10
         + DigitValue(chars[Len(chars)])

NaN == [nan |-> TRUE, int |-> 0, frac |-> <<>>]

\* parseFloat of a string of digits and dots: the longest prefix that is a
\* decimal literal (digits, then optionally a dot and digits; or a dot and
\* digits), NaN when there is none. The number is its integer part and the
\* digits of its fraction.
parseFloat(chars) ==
    LET n == RunLen(chars, 0, Digits)
        dot == At(chars, n) = "."
        m == IF dot THEN RunLen(chars, n + 1, Digits) ELSE 0
    IN  IF n = 0 /\ m = 0 THEN NaN
        ELSE [nan |-> FALSE,
              int |-> DigitsValue(SubSeq(chars, 1, n)),
              frac |-> SubSeq(chars, n + 2, n + 1 + m)]

\* The threshold of the contract value check.
ContractValueThreshold == 25000

\* value >= 25000: false of NaN; the fraction is below one, so the integer
\* part decides
AtLeastThreshold(value) == ~value.nan /\ value.int >= ContractValueThreshold

\* /^[A-Z0-9]{12}$/i.test(uei): the pattern with the ignore-case flag
ueiPatternIgnoreCase(uei) ==
    LET chars == JsString(uei)
    IN  /\ Len(chars) = 12
        /\ \A k \in 1 .. 12 : chars[k] \in (UpperCase \cup LowerCase \cup Digits)

\* the R1 check as it would be with the ignore-case pattern
CheckUEIIgnoreCase(f, docType) ==
    IF docType = "company_profile"
    THEN LET uei == f["UEI"]
         IN  IF ~Truthy(uei) \/ ~ueiPatternIgnoreCase(uei)
             THEN <<[requirement |-> "Valid UEI Required",
                     status |-> "non_compliant",
                     evidence |-> IF Truthy(uei)
                                  THEN <<"Invalid UEI format: ", uei>>
                                  ELSE <<"UEI not found in document">>,
                     ruleId |-> "R1",
                     severity |-> "critical"]>>
             ELSE <<[requirement |-> "Valid UEI Required",
                     status |-> "compliant",
                     evidence |-> <<"Valid UEI found: ", uei>>,
                     ruleId |-> "R1",
                     severity |-> "critical"]>>
    ELSE <<>>

\* "Check UEI requirement (R1)"
CheckUEI(f, docType) ==
    IF docType = "company_profile"
    THEN LET uei == f["UEI"]
         IN  IF ~Truthy(uei) \/ ~ueiPattern(uei)
             THEN <<[requirement |-> "Valid UEI Required",
                     status |-> "non_compliant",
                     evidence |-> IF Truthy(uei)
                                  THEN <<"Invalid UEI format: ", uei>>
                                  ELSE <<"UEI not found in document">>,
                     ruleId |-> "R1",
                     severity |-> "critical"]>>
             ELSE <<[requirement |-> "Valid UEI Required",
                     status |-> "compliant",
                     evidence |-> <<"Valid UEI found: ", uei>>,
                     ruleId |-> "R1",
                     severity |-> "critical"]>>
    ELSE <<>>

\* "Check NAICS to SIN mapping (R2)"
CheckNAICS(f, docType) ==
    IF docType = "company_profile" /\ Truthy(f["NAICS_codes"])
    THEN LET naicsCodes == IF f["NAICS_codes"].t = "array"
                           THEN f["NAICS_codes"].v
                           ELSE <<f["NAICS_codes"]>>
         IN  IF Len(naicsCodes) > 0
             THEN <<[requirement |-> "NAICS Code to SIN Mapping",
                     status |-> "needs_review",
                     evidence |-> <<"Found ", Len(naicsCodes), " NAICS code(s): ",
                                    naicsCodes, ". Requires mapping verification.">>,
                     ruleId |-> "R2",
                     severity |-> "high"]>>
             ELSE <<[requirement |-> "NAICS Code to SIN Mapping",
                     status |-> "non_compliant",
                     evidence |-> <<"No NAICS codes found in document">>,
                     ruleId |-> "R2",
                     severity |-> "high"]>>
    ELSE <<>>

\* "Check contract value threshold (R3)"
CheckContractValue(f, docType) ==
    IF docType = "past_performance" /\ f["contract_value"].t # "undefined"
    THEN LET value == parseFloat(StripNonNumeric(JsString(f["contract_value"])))
         IN  IF AtLeastThreshold(value)
             THEN <<[requirement |-> "Contract Value >= $25,000",
                     status |-> "compliant",
                     evidence |-> <<"Contract value: $", value>>,
                     ruleId |-> "R3",
                     severity |-> "high"]>>
             ELSE <<[requirement |-> "Contract Value >= $25,000",
                     status |-> "non_compliant",
                     evidence |-> <<"Contract value $", value,
                                    " is below $25,000 threshold">>,
                     ruleId |-> "R3",
                     severity |-> "high"]>>
    ELSE <<>>

\* .length of a string or an array, undefined of the other values
HasLength(x) == x.t \in {"string", "array"}

\* the R4 check as it would be without the Array.isArray test
CheckLaborCategoriesAnyLength(f, docType) ==
    IF docType = "pricing_sheet"
    THEN LET lc == f["labor_categories"]
         IN  IF Truthy(lc) /\ HasLength(lc) /\ Len(lc.v) > 0
             THEN <<[requirement |-> "Labor Category Details",
                     status |-> "compliant",
                     evidence |-> <<"Found ", Len(lc.v),
                                    " labor categories with details">>,
                     ruleId |-> "R4",
                     severity |-> "medium"]>>
             ELSE <<[requirement |-> "Labor Category Details",
                     status |-> "non_compliant",
                     evidence |-> <<"Labor categories missing or incomplete">>,
                     ruleId |-> "R4",
                     severity |-> "medium"]>>
    ELSE <<>>

\* "Check pricing requirements (R4)"
CheckLaborCategories(f, docType) ==
    IF docType = "pricing_sheet"
    THEN LET lc == f["labor_categories"]
         IN  IF Truthy(lc) /\ lc.t = "array" /\ Len(lc.v) > 0
             THEN <<[requirement |-> "Labor Category Details",
                     status |-> "compliant",
                     evidence |-> <<"Found ", Len(lc.v),
                                    " labor categories with details">>,
                     ruleId |-> "R4",
                     severity |-> "medium"]>>
             ELSE <<[requirement |-> "Labor Category Details",
                     status |-> "non_compliant",
                     evidence |-> <<"Labor categories missing or incomplete">>,
                     ruleId |-> "R4",
                     severity |-> "medium"]>>
    ELSE <<>>

\* The checklist, in the order the checks push their items; no check reads
\* _relevantRules.
generateChecklist(f, docType, _relevantRules) ==
    CheckUEI(f, docType) \o CheckNAICS(f, docType)
        \o CheckContractValue(f, docType) \o CheckLaborCategories(f, docType)


-----------------------------------------------------------------------------
(* The evaluator called once on a document type and a field map.           *)

SupportedTypes == {"company_profile", "past_performance", "pricing_sheet"}

FieldNames == {"UEI", "NAICS_codes", "contract_value", "labor_categories"}

UEIValues ==
    { Undefined,
      Null,
      Str(<<>>),
      Str(<<"b", "a", "d">>),
      Str(<<"A", "1", "B", "2", "C", "3", "D", "4", "E", "5", "F", "6">>),
      Str(<<"a", "1", "b", "2", "c", "3", "d", "4", "e", "5", "f", "6">>),
      Str(<<"A", "1", "B", "2", "C", "3", "D", "4", "E", "5", "F", "6", "7">>) }

NAICSValues ==
    { Undefined,
      Null,
      Arr(<<>>),
      Arr(<<Str(<<"5", "4", "1", "5", "1", "2">>)>>),
      Arr(<<Str(<<"5", "4", "1", "5", "1", "2">>), Str(<<"5", "4", "1", "6", "1", "1">>)>>),
      Str(<<"5", "4", "1", "5", "1", "2">>),
      Str(<<>>) }

ContractValues ==
    { Undefined,
      Null,
      Num(0),
      Num(20000),
      Num(24999),
      Num(25000),
      Num(50000),
      Num(-30000),
      Str(<<>>),
      Str(<<"$", "3", "0", ",", "0", "0", "0", ".", "0", "0">>),
      Str(<<"$", "2", "4", ",", "9", "9", "9", ".", "9", "9">>),
      Str(<<"2", "5", "0", "0", "0">>),
      Str(<<"-", "$", "3", "0", ",", "0", "0", "0">>),
      Str(<<"$", " ", "2", "5", " ", "0", "0", "0">>),
      Str(<<"n", "/", "a">>) }

LaborValues ==
    { Undefined,
      Null,
      Arr(<<>>),
      Arr(<<Str(<<"x">>)>>),
      Arr(<<Str(<<"x">>), Str(<<"a">>)>>),
      Str(<<"x">>) }

FieldMaps ==
    { [name \in FieldNames |->
          CASE name = "UEI" -> uei
            [] name = "NAICS_codes" -> naics
            [] name = "contract_value" -> cv
            [] name = "labor_categories" -> lc] :
      uei \in UEIValues, naics \in NAICSValues, cv \in ContractValues,
      lc \in LaborValues }

\* _relevantRules as the compliance tests and the analyze route pass it: no
\* rule, the rule of the check with the severity the test fixture gives it, or
\* a rule of another severity
RulesArguments ==
    { <<>>,
      <<[id |-> "R1", metadata |-> [severity |-> "critical"]]>>,
      <<[id |-> "R3", metadata |-> [severity |-> "high"]],
        [id |-> "R4", metadata |-> [severity |-> "low"]]>> }

InitChecklist ==
    /\ documentType \in SupportedTypes
    /\ fields \in FieldMaps
    /\ relevantRules \in RulesArguments
    /\ checklistDone = FALSE
    /\ checklist = <<>>
    /\ RedactIdle
    /\ ContainsIdle
    /\ RetrieveIdle
    /\ AnalyzeIdle
    /\ IngestIdle

\* const checklist = await generateChecklist(fields, documentType, rules)
GenerateChecklist ==
    /\ ~checklistDone
    /\ checklist' = generateChecklist(fields, documentType, relevantRules)
    /\ checklistDone' = TRUE
    /\ UNCHANGED <<documentType, fields, relevantRules, redactVars, containsVars,
                   retrieveVars, analyzeVars, ingestVars>>

NextChecklist == GenerateChecklist

SpecChecklist == InitChecklist /\ [][NextChecklist]_vars

\* the checks of a document type, by rule id
ApplicableRules(docType) ==
    CASE docType = "company_profile" -> {"R1", "R2"}
      [] docType = "past_performance" -> {"R3"}
      [] docType = "pricing_sheet" -> {"R4"}

\* the field a check reads
FieldOfRule(ruleId) ==
    CASE ruleId = "R1" -> "UEI"
      [] ruleId = "R2" -> "NAICS_codes"
      [] ruleId = "R3" -> "contract_value"
      [] ruleId = "R4" -> "labor_categories"

\* C10: for every supported document type and every field map, the returned
\* checklist holds exactly one item for each check of the type (R1 and R2 for
\* company_profile, R3 for past_performance, R4 for pricing_sheet) and no
\* other, and the item of a check whose field is missing is non_compliant.
C10_ChecklistCoversApplicableChecks ==
    checklistDone =>
        /\ {checklist[k].ruleId : k \in 1 .. Len(checklist)}
               = ApplicableRules(documentType)
        /\ Len(checklist) = Cardinality(ApplicableRules(documentType))
        /\ \A k \in 1 .. Len(checklist) :
               fields[FieldOfRule(checklist[k].ruleId)].t = "undefined"
                   => checklist[k].status = "non_compliant"

-----------------------------------------------------------------------------
(* SimpleVectorStore: the rule corpus and its lexical query.               *)

\* the title of R1
R1Title ==
    <<"U", "n", "i", "q", "u", "e", " ", "E", "n", "t", "i", "t", "y", " ",
      "I", "d", "e", "n", "t", "i", "f", "i", "e", "r", " ", "(", "U", "E",
      "I", ")", " ", "R", "e", "q", "u", "i", "r", "e", "m", "e", "n", "t">>

\* the content of R1
R1Content ==
    <<"A", "l", "l", " ", "v", "e", "n", "d", "o", "r", "s", " ", "m", "u",
      "s", "t", " ", "p", "r", "o", "v", "i", "d", "e", " ", "a", " ", "v",
      "a", "l", "i", "d", " ", "U", "n", "i", "q", "u", "e", " ", "E", "n",
      "t", "i", "t", "y", " ", "I", "d", "e", "n", "t", "i", "f", "i", "e",
      "r", " ", "(", "U", "E", "I", ")", " ", "i", "n", " ", "t", "h", "e",
      "i", "r", " ", "c", "o", "m", "p", "a", "n", "y", " ", "p", "r", "o",
      "f", "i", "l", "e", ".", " ", "T", "h", "e", " ", "U", "E", "I", " ",
      "i", "s", " ", "a", " ", "1", "2", "-", "c", "h", "a", "r", "a", "c",
      "t", "e", "r", " ", "a", "l", "p", "h", "a", "n", "u", "m", "e", "r",
      "i", "c", " ", "i", "d", "e", "n", "t", "i", "f", "i", "e", "r", " ",
      "a", "s", "s", "i", "g", "n", "e", "d", " ", "b", "y", " ", "S", "A",
      "M", ".", "g", "o", "v", ".", " ", "M", "i", "s", "s", "i", "n", "g",
      " ", "o", "r", " ", "i", "n", "v", "a", "l", "i", "d", " ", "U", "E",
      "I", " ", "i", "s", " ", "a", " ", "c", "r", "i", "t", "i", "c", "a",
      "l", " ", "c", "o", "m", "p", "l", "i", "a", "n", "c", "e", " ", "v",
      "i", "o", "l", "a", "t", "i", "o", "n", " ", "t", "h", "a", "t", " ",
      "m", "u", "s", "t", " ", "b", "e", " ", "f", "l", "a", "g", "g", "e",
      "d", " ", "i", "m", "m", "e", "d", "i", "a", "t", "e", "l", "y", ".",
      " ", "L", "e", "g", "a", "c", "y", " ", "D", "U", "N", "S", " ", "n",
      "u", "m", "b", "e", "r", "s", " ", "(", "9", "-", "d", "i", "g", "i",
      "t", " ", "n", "u", "m", "e", "r", "i", "c", ")", " ", "a", "r", "e",
      " ", "n", "o", " ", "l", "o", "n", "g", "e", "r", " ", "a", "c", "c",
      "e", "p", "t", "e", "d", " ", "a", "s", " ", "p", "r", "i", "m", "a",
      "r", "y", " ", "i", "d", "e", "n", "t", "i", "f", "i", "e", "r", "s",
      " ", "b", "u", "t", " ", "m", "a", "y", " ", "b", "e", " ", "p", "r",
      "e", "s", "e", "n", "t", " ", "f", "o", "r", " ", "r", "e", "f", "e",
      "r", "e", "n", "c", "e", ".">>

\* the title of R2
R2Title ==
    <<"N", "A", "I", "C", "S", " ", "C", "o", "d", "e", " ", "t", "o", " ",
      "S", "I", "N", " ", "M", "a", "p", "p", "i", "n", "g">>

\* the content of R2
R2Content ==
    <<"E", "a", "c", "h", " ", "N", "A", "I", "C", "S", " ", "(", "N", "o",
      "r", "t", "h", " ", "A", "m", "e", "r", "i", "c", "a", "n", " ", "I",
      "n", "d", "u", "s", "t", "r", "y", " ", "C", "l", "a", "s", "s", "i",
      "f", "i", "c", "a", "t", "i", "o", "n", " ", "S", "y", "s", "t", "e",
      "m", ")", " ", "c", "o", "d", "e", " ", "p", "r", "o", "v", "i", "d",
      "e", "d", " ", "m", "u", "s", "t", " ", "m", "a", "p", " ", "t", "o",
      " ", "a", "t", " ", "l", "e", "a", "s", "t", " ", "o", "n", "e", " ",
      "v", "a", "l", "i", "d", " ", "S", "p", "e", "c", "i", "a", "l", " ",
      "I", "t", "e", "m", " ", "N", "u", "m", "b", "e", "r", " ", "(", "S",
      "I", "N", ")", ".", " ", "N", "A", "I", "C", "S", " ", "c", "o", "d",
      "e", "s", " ", "a", "r", "e", " ", "6", "-", "d", "i", "g", "i", "t",
      " ", "n", "u", "m", "e", "r", "i", "c", " ", "c", "o", "d", "e", "s",
      " ", "t", "h", "a", "t", " ", "c", "l", "a", "s", "s", "i", "f", "y",
      " ", "b", "u", "s", "i", "n", "e", "s", "s", " ", "e", "s", "t", "a",
      "b", "l", "i", "s", "h", "m", "e", "n", "t", "s", ".", " ", "T", "h",
      "e", " ", "m", "a", "p", "p", "i", "n", "g", " ", "m", "u", "s", "t",
      " ", "b", "e", " ", "v", "e", "r", "i", "f", "i", "e", "d", " ", "a",
      "n", "d", " ", "d", "u", "p", "l", "i", "c", "a", "t", "e", "s", " ",
      "s", "h", "o", "u", "l", "d", " ", "b", "e", " ", "r", "e", "m", "o",
      "v", "e", "d", " ", "p", "e", "r", " ", "t", "h", "e", " ", "o", "f",
      "f", "i", "c", "i", "a", "l", " ", "G", "S", "A", " ", "S", "I", "N",
      " ", "t", "o", " ", "N", "A", "I", "C", "S", " ", "m", "a", "p", "p",
      "i", "n", "g", " ", "t", "a", "b", "l", "e", ".", " ", "M", "u", "l",
      "t", "i", "p", "l", "e", " ", "N", "A", "I", "C", "S", " ", "c", "o",
      "d", "e", "s", " ", "m", "a", "y", " ", "m", "a", "p", " ", "t", "o",
      " ", "t", "h", "e", " ", "s", "a", "m", "e", " ", "S", "I", "N", ",",
      " ", "b", "u", "t", " ", "e", "a", "c", "h", " ", "u", "n", "i", "q",
      "u", "e", " ", "S", "I", "N", " ", "s", "h", "o", "u", "l", "d", " ",
      "o", "n", "l", "y", " ", "b", "e", " ", "l", "i", "s", "t", "e", "d",
      " ", "o", "n", "c", "e", " ", "i", "n", " ", "t", "h", "e", " ", "f",
      "i", "n", "a", "l", " ", "o", "u", "t", "p", "u", "t", ".">>

\* the title of R3
R3Title ==
    <<"C", "o", "n", "t", "r", "a", "c", "t", " ", "V", "a", "l", "u", "e",
      " ", "T", "h", "r", "e", "s", "h", "o", "l", "d">>

\* the content of R3
R3Content ==
    <<"A", "l", "l", " ", "G", "S", "A", " ", "c", "o", "n", "t", "r", "a",
      "c", "t", "s", " ", "m", "u", "s", "t", " ", "b", "e", " ", "v", "a",
      "l", "u", "e", "d", " ", "a", "t", " ", "$", "2", "5", ",", "0", "0",
      "0", " ", "o", "r", " ", "m", "o", "r", "e", " ", "t", "o", " ", "b",
      "e", " ", "e", "l", "i", "g", "i", "b", "l", "e", " ", "f", "o", "r",
      " ", "a", "w", "a", "r", "d", ".", " ", "C", "o", "n", "t", "r", "a",
      "c", "t", "s", " ", "b", "e", "l", "o", "w", " ", "t", "h", "i", "s",
      " ", "t", "h", "r", "e", "s", "h", "o", "l", "d", " ", "a", "r", "e",
      " ", "n", "o", "t", " ", "p", "e", "r", "m", "i", "t", "t", "e", "d",
      " ", "u", "n", "d", "e", "r", " ", "G", "S", "A", " ", "r", "e", "g",
      "u", "l", "a", "t", "i", "o", "n", "s", ".", " ", "T", "h", "i", "s",
      " ", "i", "s", " ", "a", " ", "m", "a", "n", "d", "a", "t", "o", "r",
      "y", " ", "m", "i", "n", "i", "m", "u", "m", " ", "t", "h", "a", "t",
      " ", "c", "a", "n", "n", "o", "t", " ", "b", "e", " ", "w", "a", "i",
      "v", "e", "d", " ", "o", "r", " ", "r", "e", "d", "u", "c", "e", "d",
      ".">>

\* the title of R4
R4Title ==
    <<"L", "a", "b", "o", "r", " ", "C", "a", "t", "e", "g", "o", "r", "y",
      " ", "R", "e", "q", "u", "i", "r", "e", "m", "e", "n", "t", "s">>

\* the content of R4
R4Content ==
    <<"A", "l", "l", " ", "s", "e", "r", "v", "i", "c", "e", " ", "c", "o",
      "n", "t", "r", "a", "c", "t", "s", " ", "m", "u", "s", "t", " ", "s",
      "p", "e", "c", "i", "f", "y", " ", "l", "a", "b", "o", "r", " ", "c",
      "a", "t", "e", "g", "o", "r", "i", "e", "s", " ", "w", "i", "t", "h",
      " ", "c", "l", "e", "a", "r", " ", "j", "o", "b", " ", "t", "i", "t",
      "l", "e", "s", ",", " ", "r", "e", "q", "u", "i", "r", "e", "d", " ",
      "q", "u", "a", "l", "i", "f", "i", "c", "a", "t", "i", "o", "n", "s",
      ",", " ", "a", "n", "d", " ", "m", "i", "n", "i", "m", "u", "m", " ",
      "e", "x", "p", "e", "r", "i", "e", "n", "c", "e", " ", "r", "e", "q",
      "u", "i", "r", "e", "m", "e", "n", "t", "s", ".", " ", "E", "a", "c",
      "h", " ", "l", "a", "b", "o", "r", " ", "c", "a", "t", "e", "g", "o",
      "r", "y", " ", "m", "u", "s", "t", " ", "i", "n", "c", "l", "u", "d",
      "e", " ", "e", "d", "u", "c", "a", "t", "i", "o", "n", " ", "r", "e",
      "q", "u", "i", "r", "e", "m", "e", "n", "t", "s", ",", " ", "y", "e",
      "a", "r", "s", " ", "o", "f", " ", "e", "x", "p", "e", "r", "i", "e",
      "n", "c", "e", ",", " ", "c", "e", "r", "t", "i", "f", "i", "c", "a",
      "t", "i", "o", "n", "s", ",", " ", "a", "n", "d", " ", "c", "l", "e",
      "a", "r", "a", "n", "c", "e", " ", "l", "e", "v", "e", "l", "s", " ",
      "i", "f", " ", "a", "p", "p", "l", "i", "c", "a", "b", "l", "e", ".",
      " ", "L", "a", "b", "o", "r", " ", "c", "a", "t", "e", "g", "o", "r",
      "i", "e", "s", " ", "m", "u", "s", "t", " ", "b", "e", " ", "d", "i",
      "s", "t", "i", "n", "c", "t", " ", "a", "n", "d", " ", "n", "o", "t",
      " ", "o", "v", "e", "r", "l", "a", "p", " ", "i", "n", " ", "r", "e",
      "s", "p", "o", "n", "s", "i", "b", "i", "l", "i", "t", "i", "e", "s",
      ".">>

\* the title of R5
R5Title ==
    <<"P", "I", "I", " ", "R", "e", "d", "a", "c", "t", "i", "o", "n", " ",
      "R", "e", "q", "u", "i", "r", "e", "m", "e", "n", "t", "s">>

\* the content of R5
R5Content ==
    <<"A", "l", "l", " ", "p", "e", "r", "s", "o", "n", "a", "l", "l", "y",
      " ", "i", "d", "e", "n", "t", "i", "f", "i", "a", "b", "l", "e", " ",
      "i", "n", "f", "o", "r", "m", "a", "t", "i", "o", "n", " ", "(", "P",
      "I", "I", ")", " ", "m", "u", "s", "t", " ", "b", "e", " ", "r", "e",
      "d", "a", "c", "t", "e", "d", " ", "f", "r", "o", "m", " ", "s", "u",
      "b", "m", "i", "t", "t", "e", "d", " ", "d", "o", "c", "u", "m", "e",
      "n", "t", "s", " ", "b", "e", "f", "o", "r", "e", " ", "p", "r", "o",
      "c", "e", "s", "s", "i", "n", "g", ".", " ", "P", "I", "I", " ", "i",
      "n", "c", "l", "u", "d", "e", "s", " ", "n", "a", "m", "e", "s", ",",
      " ", "a", "d", "d", "r", "e", "s", "s", "e", "s", ",", " ", "p", "h",
      "o", "n", "e", " ", "n", "u", "m", "b", "e", "r", "s", ",", " ", "e",
      "m", "a", "i", "l", " ", "a", "d", "d", "r", "e", "s", "s", "e", "s",
      ",", " ", "S", "o", "c", "i", "a", "l", " ", "S", "e", "c", "u", "r",
      "i", "t", "y", " ", "N", "u", "m", "b", "e", "r", "s", ",", " ", "a",
      "n", "d", " ", "f", "i", "n", "a", "n", "c", "i", "a", "l", " ", "a",
      "c", "c", "o", "u", "n", "t", " ", "i", "n", "f", "o", "r", "m", "a",
      "t", "i", "o", "n", ".", " ", "R", "e", "d", "a", "c", "t", "i", "o",
      "n", " ", "m", "u", "s", "t", " ", "b", "e", " ", "c", "o", "m", "p",
      "l", "e", "t", "e", " ", "a", "n", "d", " ", "i", "r", "r", "e", "v",
      "e", "r", "s", "i", "b", "l", "e", ".", " ", "P", "a", "r", "t", "i",
      "a", "l", " ", "r", "e", "d", "a", "c", "t", "i", "o", "n", " ", "i",
      "s", " ", "n", "o", "t", " ", "a", "c", "c", "e", "p", "t", "a", "b",
      "l", "e", ".">>

\* The rules of the store, in the order initializeWithGSARules lists them.
GSA_RULES ==
    <<[id |-> "R1", title |-> R1Title, content |-> R1Content,
       category |-> "identification", severity |-> "critical"],
      [id |-> "R2", title |-> R2Title, content |-> R2Content,
       category |-> "classification", severity |-> "high"],
      [id |-> "R3", title |-> R3Title, content |-> R3Content,
       category |-> "financial", severity |-> "critical"],
      [id |-> "R4", title |-> R4Title, content |-> R4Content,
       category |-> "labor", severity |-> "high"],
      [id |-> "R5", title |-> R5Title, content |-> R5Content,
       category |-> "security", severity |-> "critical"]>>

\* this.documents as initializeWithGSARules builds it from GSA_RULES
VectorDocuments(rules) ==
    [k \in DOMAIN rules |->
        [id |-> rules[k].id,
         content |-> rules[k].content,
         metadata |-> [title |-> rules[k].title,
                       category |-> rules[k].category,
                       severity |-> rules[k].severity]]]

UpperLetters == <<"A", "B", "C", "D", "E", "F", "G", "H", "I", "J", "K", "L", "M",
                  "N", "O", "P", "Q", "R", "S", "T", "U", "V", "W", "X", "Y", "Z">>

LowerLetters == <<"a", "b", "c", "d", "e", "f", "g", "h", "i", "j", "k", "l", "m",
                  "n", "o", "p", "q", "r", "s", "t", "u", "v", "w", "x", "y", "z">>

\* the lower-case form of one character
LowerChar(c) ==
    IF c \in UpperCase
    THEN LowerLetters[CHOOSE k \in 1 .. 26 : UpperLetters[k] = c]
    ELSE c

\* String.prototype.toLowerCase
toLowerCase(s) == [k \in DOMAIN s |-> LowerChar(s[k])]

\* the offset of the first character of class cls at or after i, Len(s) if none
RECURSIVE FirstIn(_, _, _)
FirstIn(s, i, cls) ==
    IF i >= Len(s) \/ At(s, i) \in cls THEN i ELSE FirstIn(s, i + 1, cls)

\* query.split(/\s+/): the pieces between the maximal runs of white space; a
\* run at the start or at the end leaves an empty piece there
RECURSIVE SplitOnSpace(_)
SplitOnSpace(s) ==
    LET cut == FirstIn(s, 0, SpaceChars)
    IN  IF cut >= Len(s) THEN <<s>>
        ELSE <<SubSeq(s, 1, cut)>>
             \o SplitOnSpace(SubSeq(s, cut + RunLen(s, cut, SpaceChars) + 1, Len(s)))

\* String.prototype.includes
Includes(s, word) ==
    \E i \in 0 .. (Len(s) - Len(word)) : SubSeq(s, i + 1, i + Len(word)) = word

\* The weights of a query word found in the content and in the title.
ContentWeight == 2

TitleWeight == 3

\* the score the loop over queryWords gives a rule
RECURSIVE ScoreWords(_, _, _)
ScoreWords(content, title, queryWords) ==
    IF queryWords = <<>> THEN 0
    ELSE (IF Includes(content, Head(queryWords)) THEN ContentWeight ELSE 0)
         + (IF Includes(title, Head(queryWords)) THEN TitleWeight ELSE 0)
         + ScoreWords(content, title, Tail(queryWords))

\* this.documents.map(doc => ... { doc, score })
Scored(docs, query) ==
    [k \in DOMAIN docs |->
        [doc |-> docs[k],
         score |-> ScoreWords(toLowerCase(docs[k].content),
                              toLowerCase(docs[k].metadata.title),
                              SplitOnSpace(query))]]

\* .filter(item => item.score > 0)
PositiveScore(item) == item.score > 0

\* one step of a sort that puts an item before the elements of its own score
RECURSIVE InsertBeforeEqual(_, _)
InsertBeforeEqual(sorted, item) ==
    IF sorted = <<>> THEN <<item>>
    ELSE IF item.score - Head(sorted).score >= 0
         THEN <<item>> \o sorted
         ELSE <<Head(sorted)>> \o InsertBeforeEqual(Tail(sorted), item)

\* one step of the stable sort with the comparator b.score - a.score: item
\* goes after the last element that does not score less
RECURSIVE InsertByScore(_, _)
InsertByScore(sorted, item) ==
    IF sorted = <<>> THEN <<item>>
    ELSE IF item.score - Head(sorted).score > 0
         THEN <<item>> \o sorted
         ELSE <<Head(sorted)>> \o InsertByScore(Tail(sorted), item)

\* .sort((a, b) => b.score - a.score)
RECURSIVE SortByScore(_)
SortByScore(items) ==
    IF items = <<>> THEN <<>>
    ELSE InsertByScore(SortByScore(SubSeq(items, 1, Len(items) - 1)),
                       items[Len(items)])

\* an index of Array.prototype.slice: a negative one counts from the end
SliceIndex(s, a) ==
    IF a < 0 THEN (IF Len(s) + a < 0 THEN 0 ELSE Len(s) + a)
    ELSE IF a > Len(s) THEN Len(s) ELSE a

\* .slice(0, nResults)
Slice(s, nResults) == SubSeq(s, 1, SliceIndex(s, nResults))

\* the QueryResult of topResults; a distance is 1 - score / 10, kept in tenths
QueryResult(topResults) ==
    [threw |-> FALSE,
     ids |-> [k \in DOMAIN topResults |-> topResults[k].doc.id],
     metadatas |-> [k \in DOMAIN topResults |-> topResults[k].doc.metadata],
     distances |-> [k \in DOMAIN topResults |-> 10 - topResults[k].score]]

\* SimpleVectorStore.query({queryTexts: [queryText], nResults})
StoreQuery(docs, queryText, nResults) ==
    QueryResult(Slice(SortByScore(SelectSeq(Scored(docs, toLowerCase(queryText)),
                                            PositiveScore)),
                      nResults))

\* this.documents as a sort of the store's own array would leave it
DocumentsSortedInPlace(docs, queryText) ==
    LET sorted == SortByScore(Scored(docs, toLowerCase(queryText)))
    IN  [k \in DOMAIN sorted |-> sorted[k].doc]

\* this.documents after a query: map and filter build new arrays and sort
\* orders the filtered one, so the store's array is as it was
DocumentsAfterQuery(docs, queryText) == docs

\* throw new Error('Vector store not initialized')
NotInitialized == [threw |-> TRUE, message |-> "Vector store not initialized"]

\* queryRules(query, nResults)
queryRules(initialized, docs, query, nResults) ==
    IF ~initialized THEN NotInitialized ELSE StoreQuery(docs, query, nResults)

-----------------------------------------------------------------------------
(* The verdicts of the four checks.                                        *)

\* the items of the returned checklist that cite ruleId
ItemsOf(ruleId) == SelectSeq(checklist, LAMBDA item : item.ruleId = ruleId)

\* a field that is absent, null or empty
AbsentOrEmpty(x) ==
    \/ x.t \in {"undefined", "null"}
    \/ x.t \in {"string", "array"} /\ x.v = <<>>

\* C11: the checklist of a company_profile document holds exactly one R2 item:
\* non_compliant with the evidence 'No NAICS codes found in document' when
\* NAICS_codes is absent or empty, needs_review with the codes listed when it
\* is present and non-empty.
C11_R2ItemAlwaysPresent ==
    (checklistDone /\ documentType = "company_profile") =>
        /\ Len(ItemsOf("R2")) = 1
        /\ IF AbsentOrEmpty(fields["NAICS_codes"])
           THEN /\ ItemsOf("R2")[1].status = "non_compliant"
                /\ ItemsOf("R2")[1].evidence = <<"No NAICS codes found in document">>
           ELSE /\ ItemsOf("R2")[1].status = "needs_review"
                /\ ItemsOf("R2")[1].evidence[1] = "Found "

\* the characters a currency-formatted amount carries besides its number
CurrencyChars == {"$", ","} \cup SpaceChars

\* the decimal literal a run of characters spells: digits, then optionally a
\* dot and digits
DecimalLiteral(chars) ==
    LET n == RunLen(chars, 0, Digits)
        m == IF At(chars, n) = "." THEN RunLen(chars, n + 1, Digits) ELSE 0
    IN  [ok |-> n > 0 /\ (IF m > 0 THEN n + 1 + m ELSE n) = Len(chars),
         int |-> DigitsValue(SubSeq(chars, 1, n))]

\* the number a signed run of characters spells
SignedLiteral(chars) ==
    IF chars # <<>> /\ Head(chars) = "-"
    THEN [neg |-> TRUE, abs |-> DecimalLiteral(Tail(chars))]
    ELSE [neg |-> FALSE, abs |-> DecimalLiteral(chars)]

\* The number a contract_value denotes: a number denotes itself, a string the
\* signed decimal left when its currency symbol, commas and white space are
\* taken away; ok is false when it denotes none. The number is its sign and
\* the integer part of its magnitude.
DenotedNumber(x) ==
    CASE x.t = "number" ->
            [ok |-> TRUE, neg |-> x.v < 0, int |-> IF x.v < 0 THEN 0 - x.v ELSE x.v]
      [] x.t = "string" ->
            LET lit == SignedLiteral(SelectSeq(x.v, LAMBDA c : c \notin CurrencyChars))
            IN  [ok |-> lit.abs.ok, neg |-> lit.neg, int |-> lit.abs.int]
      [] OTHER -> [ok |-> FALSE, neg |-> FALSE, int |-> 0]

\* v < 25000 of a denoted number
BelowThreshold(d) == d.neg \/ d.int < ContractValueThreshold

\* C12: for a past_performance document whose contract_value denotes a number
\* v, the checklist holds one R3 item, non_compliant when v < 25000 and
\* compliant when v >= 25000.
C12_ThresholdDecidesR3 ==
    (checklistDone /\ documentType = "past_performance"
        /\ DenotedNumber(fields["contract_value"]).ok) =>
        /\ Len(ItemsOf("R3")) = 1
        /\ ItemsOf("R3")[1].status
               = IF BelowThreshold(DenotedNumber(fields["contract_value"]))
                 THEN "non_compliant" ELSE "compliant"

\* a string of exactly 12 characters of class cls
TwelveOf(x, cls) ==
    /\ x.t = "string"
    /\ Len(x.v) = 12
    /\ \A k \in 1 .. 12 : x.v[k] \in cls

\* the one R1 item the claim describes, a UEI being well formed when its
\* characters are of class cls
R1Verdict(cls) ==
    /\ Len(ItemsOf("R1")) = 1
    /\ IF AbsentOrEmpty(fields["UEI"])
       THEN /\ ItemsOf("R1")[1].status = "non_compliant"
            /\ ItemsOf("R1")[1].evidence = <<"UEI not found in document">>
       ELSE IF TwelveOf(fields["UEI"], cls)
       THEN /\ ItemsOf("R1")[1].status = "compliant"
            /\ ItemsOf("R1")[1].evidence = <<"Valid UEI found: ", fields["UEI"]>>
       ELSE /\ ItemsOf("R1")[1].status = "non_compliant"
            /\ ItemsOf("R1")[1].evidence = <<"Invalid UEI format: ", fields["UEI"]>>

C14_R4FollowsLaborCategories ==
    (checklistDone /\ documentType = "pricing_sheet") =>
        /\ Len(ItemsOf("R4")) = 1
        /\ Len(checklist) = 1
        /\ IF fields["labor_categories"].t = "array"
                /\ fields["labor_categories"].v # <<>>
           THEN /\ ItemsOf("R4")[1].status = "compliant"
                /\ ItemsOf("R4")[1].evidence[2] = Len(fields["labor_categories"].v)
           ELSE ItemsOf("R4")[1].status = "non_compliant"

\* a pricing sheet with two labor categories was judged compliant
C14_Witness ==
    /\ checklistDone
    /\ documentType = "pricing_sheet"
    /\ fields["labor_categories"].t = "array"
    /\ Len(fields["labor_categories"].v) = 2
    /\ checklist[1].status = "compliant"

\* the severity the corpus gives the rule ruleId
CorpusSeverity(ruleId) ==
    GSA_RULES[CHOOSE k \in DOMAIN GSA_RULES : GSA_RULES[k].id = ruleId].severity

\* C15: every item of the checklist carries the severity the rule of its
\* ruleId has in the corpus of the store, whatever rules were handed in.
C15_SeverityOfCorpusRule ==
    checklistDone =>
        \A k \in 1 .. Len(checklist) :
            checklist[k].severity = CorpusSeverity(checklist[k].ruleId)

-----------------------------------------------------------------------------
(* The store queried: once on any query, and by several calls in a row.    *)

NoQuery == [query |-> <<>>, nResults |-> 0]

NoResult == [threw |-> FALSE, ids |-> <<>>, metadatas |-> <<>>, distances |-> <<>>]

NoCall == [made |-> FALSE, arg |-> NoQuery, result |-> NoResult]

\* the pieces queries are put together from
QueryChunks ==
    { <<"U", "E", "I">>,
      <<"m", "u", "s", "t">>,
      <<"c", "o", "d", "e">>,
      <<"C", "o", "n", "t", "r", "a", "c", "t">>,
      <<" ">> }

MaxQueryChunks == 3

MaxTopN == 3

\* calls made in a row
MaxQueryCalls == 3

RECURSIVE QueriesOf(_)
QueriesOf(n) ==
    IF n = 0 THEN {<<>>}
    ELSE QueriesOf(n - 1)
         \cup {q \o c : q \in QueriesOf(n - 1), c \in QueryChunks}

Queries == QueriesOf(MaxQueryChunks)

\* the store as the server start leaves it
StoreInitialized ==
    /\ collection = TRUE
    /\ documents = VectorDocuments(GSA_RULES)

InitQuery ==
    /\ StoreInitialized
    /\ queryCalls = 0
    /\ queryArg = NoQuery
    /\ queryResult = NoResult
    /\ firstCall = NoCall
    /\ RedactIdle
    /\ ContainsIdle
    /\ ChecklistIdle
    /\ AnalyzeIdle
    /\ IngestIdle

\* the first call that returned is remembered
FirstCallAfter(q, n, result) ==
    IF firstCall.made \/ result.threw THEN firstCall
    ELSE [made |-> TRUE, arg |-> [query |-> q, nResults |-> n], result |-> result]

\* what a call leaves: its result, and the store's array
QueryReturned(q, n, result) ==
    /\ queryResult' = result
    /\ firstCall' = FirstCallAfter(q, n, result)
    /\ documents' = IF result.threw THEN documents
                    ELSE DocumentsAfterQuery(documents, q)

\* initializeVectorStore(): collection = new SimpleCollection()
InitializeVectorStore ==
    /\ ~collection
    /\ collection' = TRUE
    /\ documents' = VectorDocuments(GSA_RULES)
    /\ UNCHANGED <<queryCalls, queryArg, queryResult, firstCall>>
    /\ UNCHANGED <<redactVars, containsVars, checklistVars, analyzeVars, ingestVars>>

\* await queryRules(q, n)
QueryRules(q, n) ==
    /\ queryCalls < MaxQueryCalls
    /\ queryCalls' = queryCalls + 1
    /\ queryArg' = [query |-> q, nResults |-> n]
    /\ QueryReturned(q, n, queryRules(collection, documents, q, n))
    /\ UNCHANGED collection
    /\ UNCHANGED <<redactVars, containsVars, checklistVars, analyzeVars, ingestVars>>

\* one query, any text, any count
QueryOnce == \E q \in Queries, n \in 0 .. MaxTopN : queryCalls = 0 /\ QueryRules(q, n)

NextQuery == QueryOnce

SpecQuery == InitQuery /\ [][NextQuery]_vars

\* the queries of the calls in a row: the word of four rule bodies, the word
\* of one title, two words, the query the analyze route builds for an empty
\* field map, and a word of no rule
ProbeQueries ==
    { <<"m", "u", "s", "t">>,
      <<"c", "o", "n", "t", "r", "a", "c", "t">>,
      <<"l", "a", "b", "o", "r", " ", "m", "u", "s", "t">>,
      <<"u", "n", "k", "n", "o", "w", "n", " ", "c", "o", "m", "p", "l", "i", "a",
        "n", "c", "e", " ", "r", "e", "q", "u", "i", "r", "e", "m", "e", "n", "t",
        "s", " ", "{", "}">>,
      <<"z", "z", "z">> }

\* nResults of the calls in a row: one, the default of queryRules, and the
\* count the analyze route asks for
ProbeTopNs == {1, 3, 5}

InitRetrieve ==
    /\ RetrieveIdle
    /\ AnalyzeIdle
    /\ IngestIdle
    /\ RedactIdle
    /\ ContainsIdle
    /\ ChecklistIdle

NextRetrieve ==
    \/ InitializeVectorStore
    \/ \E q \in ProbeQueries, n \in ProbeTopNs : QueryRules(q, n)

SpecRetrieve == InitRetrieve /\ [][NextRetrieve]_vars

\* the maximal runs of characters other than white space of q, as pairs of
\* their first and last position
WordSpans(q) ==
    { span \in (1 .. Len(q)) \X (1 .. Len(q)) :
        /\ span[1] <= span[2]
        /\ \A k \in span[1] .. span[2] : q[k] \notin SpaceChars
        /\ span[1] = 1 \/ q[span[1] - 1] \in SpaceChars
        /\ span[2] = Len(q) \/ q[span[2] + 1] \in SpaceChars }

\* the words of q that are substrings of body, counted as often as they occur
\* in q
WordsFound(q, body) ==
    Cardinality({span \in WordSpans(q) : Includes(body, SubSeq(q, span[1], span[2]))})

\* the reference score of the k-th rule of the corpus for the query q
ReferenceScore(k, q) ==
    2 * WordsFound(toLowerCase(q), toLowerCase(GSA_RULES[k].content))
        + 3 * WordsFound(toLowerCase(q), toLowerCase(GSA_RULES[k].title))

\* the reference ranking: the rules of positive score, a rule before another
\* when it scores more, or the same and comes first in the corpus; the first
\* topN of them
ReferenceRanking(q, topN) ==
    LET score == [k \in DOMAIN GSA_RULES |-> ReferenceScore(k, q)]
        kept == {k \in DOMAIN GSA_RULES : score[k] > 0}
        rank == [k \in kept |->
                    1 + Cardinality({j \in kept :
                            \/ score[j] > score[k]
                            \/ score[j] = score[k] /\ j < k})]
        size == IF topN < Cardinality(kept) THEN topN ELSE Cardinality(kept)
    IN  [i \in 1 .. size |-> GSA_RULES[CHOOSE k \in kept : rank[k] = i].id]

\* C16: the identifiers a query returns are the reference ranking of the
\* corpus for the query and the count (a non-negative count), and never more
\* than the count.
C16_QueryEqualsReferenceRanking ==
    (queryCalls > 0 /\ ~queryResult.threw) =>
        /\ queryResult.ids = ReferenceRanking(queryArg.query, queryArg.nResults)
        /\ Len(queryResult.ids) <= queryArg.nResults

\* C17: after initialization a call with the query and the count of the first
\* call returns the identifiers the first call returned, whatever calls came
\* between, and the store's documents stay the rules it was initialized with.
C17_RetrievalDeterministic ==
    /\ collection => documents = VectorDocuments(GSA_RULES)
    /\ (firstCall.made /\ ~queryResult.threw /\ queryArg = firstCall.arg)
           => queryResult.ids = firstCall.result.ids

\* the third call repeated the first one and returned three rules that tie
C17_Witness ==
    /\ queryCalls = 3
    /\ firstCall.made
    /\ queryArg = firstCall.arg
    /\ queryResult.ids = <<"R1", "R2", "R3">>

-----------------------------------------------------------------------------
(* The analysis pipeline: POST /api/analyze and the capabilities it calls. *)
(*                                                                         *)
(* A run is named by its analysisId. The repository calls are synchronous; *)
(* a run waits for I/O only while a call of the LLM is on its way, and the *)
(* code from the return of one such call to the start of the next is one   *)
(* step. A confidence is kept in hundredths.                               *)

AnalysisIds == {"a1", "a2"}

\* request_id values: one with a stored document, one without, one that is
\* no uuid
RequestIds == {"r1", "r2", "not-a-uuid"}

\* analyzeSchema.validate
ValidRequestId(rid) == rid # "not-a-uuid"

\* CONFIDENCE_THRESHOLD, 0.8 unless the environment sets it
CONFIDENCE_THRESHOLD == 80

\* x < threshold of a JSON value: undefined compares false, null counts as 0
JsLessThan(x, threshold) ==
    CASE x.t = "number" -> x.v < threshold
      [] x.t = "null" -> 0 < threshold
      [] OTHER -> FALSE

\* what a call of the LLM can come to: a response, a refused connection, or
\* a timeout or another failure of the request
LlmFailures == {"refused", "timeout"}

\* callOllama: the response text, or the AppError it throws
callOllama(outcome) ==
    CASE outcome.kind = "refused" ->
            [threw |-> TRUE, statusCode |-> 503,
             message |-> "AI service unavailable. Please ensure Ollama is running."]
      [] outcome.kind = "timeout" ->
            [threw |-> TRUE, statusCode |-> 500,
             message |-> "Failed to process AI request"]
      [] OTHER -> [threw |-> FALSE, response |-> outcome]

\* the result of the catch block of classifyDocument
ClassificationFailed ==
    [documentType |-> "unknown",
     confidence |-> Num(0),
     reasoning |-> "Classification failed due to error",
     shouldAbstain |-> TRUE]

\* the result classifyDocument builds from the parsed JSON: an absent or
\* empty documentType is "", an absent reasoning is ""
ClassificationOf(result) ==
    [documentType |-> IF result.documentType = "" THEN "unknown"
                      ELSE result.documentType,
     confidence |-> IF Truthy(result.confidence) THEN result.confidence ELSE Num(0),
     reasoning |-> IF result.reasoning = "" THEN "No reasoning provided"
                   ELSE result.reasoning,
     shouldAbstain |-> JsLessThan(result.confidence, CONFIDENCE_THRESHOLD)]

\* classifyDocument, given what its call of the LLM comes to: a response
\* without a JSON object in it (kind "text") throws inside the try
ClassifyResponse(attempt) ==
    IF attempt.threw \/ attempt.response.kind # "json"
    THEN ClassificationFailed
    ELSE ClassificationOf(attempt.response.json)

classifyDocument(outcome) == ClassifyResponse(callOllama(outcome))

\* the result of the default case and of the catch block of extractFields
NoFieldMap == [name \in FieldNames |-> Undefined]

ExtractionFailed == [fields |-> NoFieldMap, extracted |-> FALSE]

\* the document types extractFields has a prompt for
ExtractableTypes == {"company_profile", "past_performance", "pricing_sheet"}

\* extractFields, given what its call of the LLM comes to
ExtractResponse(attempt) ==
    IF attempt.threw \/ attempt.response.kind # "json"
    THEN ExtractionFailed
    ELSE [fields |-> attempt.response.json, extracted |-> TRUE]

extractFields(outcome) == ExtractResponse(callOllama(outcome))

\* the fallback texts of the two generation calls
BriefFallback == "Unable to generate negotiation brief due to AI service error."

EmailFallback == "Unable to generate client email due to AI service error."

\* generateNegotiationBrief and generateClientEmail, given what the call of
\* the LLM comes to
GenerateResponse(attempt, fallback) ==
    IF attempt.threw THEN fallback ELSE attempt.response.text

generateNegotiationBrief(outcome) == GenerateResponse(callOllama(outcome), BriefFallback)

generateClientEmail(outcome) == GenerateResponse(callOllama(outcome), EmailFallback)

\* the characters of a document type
TypeChars(docType) ==
    CASE docType = "company_profile" ->
            <<"c", "o", "m", "p", "a", "n", "y", "_", "p", "r", "o", "f", "i", "l", "e">>
      [] docType = "past_performance" ->
            <<"p", "a", "s", "t", "_", "p", "e", "r", "f", "o", "r", "m", "a", "n", "c", "e">>
      [] docType = "pricing_sheet" ->
            <<"p", "r", "i", "c", "i", "n", "g", "_", "s", "h", "e", "e", "t">>
      [] OTHER -> <<"u", "n", "k", "n", "o", "w", "n">>

\* the characters of a field name
NameChars(name) ==
    CASE name = "UEI" -> <<"U", "E", "I">>
      [] name = "NAICS_codes" ->
            <<"N", "A", "I", "C", "S", "_", "c", "o", "d", "e", "s">>
      [] name = "contract_value" ->
            <<"c", "o", "n", "t", "r", "a", "c", "t", "_", "v", "a", "l", "u", "e">>
      [] name = "labor_categories" ->
            <<"l", "a", "b", "o", "r", "_", "c", "a", "t", "e", "g", "o", "r", "i", "e", "s">>

\* the keys of a field map in the order the prompts of extractFields name them
FieldOrder == <<"UEI", "NAICS_codes", "contract_value", "labor_categories">>

Quoted(chars) == <<"\"">> \o chars \o <<"\"">>

\* JSON.stringify of a string, a number, null or an array of them
RECURSIVE JsonStringify(_)
RECURSIVE JsonItems(_)
JsonItems(items) ==
    IF items = <<>> THEN <<>>
    ELSE IF Len(items) = 1 THEN JsonStringify(items[1])
    ELSE JsonStringify(items[1]) \o <<",">> \o JsonItems(Tail(items))

JsonStringify(x) ==
    CASE x.t = "string" -> Quoted(x.v)
      [] x.t = "number" -> JsString(x)
      [] x.t = "array" -> <<"[">> \o JsonItems(x.v) \o <<"]">>
      [] OTHER -> <<"n", "u", "l", "l">>

\* the members of JSON.stringify(fields) from the k-th key on; a key whose
\* value is undefined is left out
RECURSIVE JsonMembers(_, _, _)
JsonMembers(f, k, first) ==
    IF k > Len(FieldOrder) THEN <<>>
    ELSE IF f[FieldOrder[k]].t = "undefined" THEN JsonMembers(f, k + 1, first)
    ELSE (IF first THEN <<>> ELSE <<",">>)
         \o Quoted(NameChars(FieldOrder[k])) \o <<":">>
         \o JsonStringify(f[FieldOrder[k]])
         \o JsonMembers(f, k + 1, FALSE)

\* JSON.stringify(fieldExtraction.fields)
JsonObject(f) == <<"{">> \o JsonMembers(f, 1, TRUE) \o <<"}">>

\* `${documentType} compliance requirements ${JSON.stringify(fields)}`
ruleQuery(docType, f) ==
    TypeChars(docType)
        \o <<" ", "c", "o", "m", "p", "l", "i", "a", "n", "c", "e", " ",
             "r", "e", "q", "u", "i", "r", "e", "m", "e", "n", "t", "s", " ">>
        \o JsonObject(f)

\* The number of rules the route asks for.
RouteTopN == 5

\* relevantRules.ids.map((id, index) => ({id, content, metadata}))
rulesData(result) ==
    [k \in DOMAIN result.ids |-> [id |-> result.ids[k], metadata |-> result.metadatas[k]]]

\* JSON.stringify of a value the record keeps as text
Json(x) == [t |-> "json", v |-> x]

\* a string bound to a TEXT column
TextValue(x) == [t |-> "string", v |-> x]

\* the row AnalysisRepository.create inserts
NewAnalysis(rid) ==
    [request_id |-> rid,
     document_classification |-> Null,
     classification_confidence |-> Null,
     checklist_items |-> Null,
     negotiation_brief |-> Null,
     client_email |-> Null,
     rule_citations |-> Null,
     status |-> "processing",
     error_message |-> Null]

\* no row of this id
NoRow == [status |-> "none"]

\* no response sent
NoResponse == [code |-> 0]

\* the locals of a run that has not started
NoRun ==
    [request_id |-> "",
     redactedText |-> <<>>,
     classification |-> ClassificationFailed,
     fieldExtraction |-> ExtractionFailed,
     relevantRules |-> <<>>,
     checklist |-> <<>>,
     negotiationBrief |-> ""]

\* errorHandler: an AppError answers with its own status code and message,
\* any other error with 500
errorHandler(err) ==
    IF err.isAppError
    THEN [code |-> err.statusCode, status |-> "error", message |-> err.message]
    ELSE [code |-> 500, status |-> "error", message |-> "An unexpected error occurred"]

\* the answer of a run that abstained, and of one that completed
AbstainResponse ==
    [code |-> 200, status |-> "success", message |-> "Analysis completed with warnings"]

SuccessResponse ==
    [code |-> 200, status |-> "success", message |-> "Document analyzed successfully"]

\* AnalysisRepository.update: the columns named are set, a missing row is
\* left missing
Updated(row, updates) ==
    IF row = NoRow THEN NoRow
    ELSE [k \in DOMAIN row |-> IF k \in DOMAIN updates THEN updates[k] ELSE row[k]]

\* "Update with classification"
ClassifiedRow(row, c) ==
    Updated(row, [document_classification |-> TextValue(c.documentType),
                  classification_confidence |-> c.confidence])

\* "If classification abstained, return early"
AbstainedRow(row, c) ==
    Updated(row, [status |-> "completed_with_warnings",
                  error_message |->
                      TextValue(<<"Low confidence classification: ", c.reasoning>>)])

\* the final update with the client email left out
CompletedRowWithoutEmail(row, locals, clientEmail) ==
    Updated(row, [checklist_items |-> Json(locals.checklist),
                  negotiation_brief |-> TextValue(locals.negotiationBrief),
                  rule_citations |-> Json(locals.relevantRules),
                  status |-> "completed"])

\* "Update analysis with results"
CompletedRow(row, locals, clientEmail) ==
    Updated(row, [checklist_items |-> Json(locals.checklist),
                  negotiation_brief |-> TextValue(locals.negotiationBrief),
                  client_email |-> TextValue(clientEmail),
                  rule_citations |-> Json(locals.relevantRules),
                  status |-> "completed"])

\* document.redacted_content || ''
OrEmpty(x) == IF Truthy(x) THEN x.v ELSE <<>>

\* a step whose repository calls name the request_id in place of the id:
\* they write every record of the request
CommitByRequestId(a, nextPc, row, locals, log, resp, down, docs) ==
    /\ pc' = [pc EXCEPT ![a] = nextPc]
    /\ analysisRows' =
           [b \in DOMAIN analysisRows |->
               IF b = a THEN row
               ELSE IF row.status # "none" /\ analysisRows[b].status # "none"
                       /\ analysisRows[b].request_id = row.request_id
               THEN row
               ELSE analysisRows[b]]
    /\ run' = [run EXCEPT ![a] = locals]
    /\ calls' = [calls EXCEPT ![a] = log]
    /\ response' = [response EXCEPT ![a] = resp]
    /\ llmDown' = [llmDown EXCEPT ![a] = down]
    /\ documents' = docs

\* what a step of run a leaves behind
Commit(a, nextPc, row, locals, log, resp, down, docs) ==
    /\ pc' = [pc EXCEPT ![a] = nextPc]
    /\ analysisRows' = [analysisRows EXCEPT ![a] = row]
    /\ run' = [run EXCEPT ![a] = locals]
    /\ calls' = [calls EXCEPT ![a] = log]
    /\ response' = [response EXCEPT ![a] = resp]
    /\ llmDown' = [llmDown EXCEPT ![a] = down]
    /\ documents' = docs

\* the request is refused before a record exists: the AppError goes to
\* next(error)
Rejected(a, statusCode, message) ==
    Commit(a, "done", analysisRows[a], run[a], calls[a],
           errorHandler([isAppError |-> TRUE, statusCode |-> statusCode,
                         message |-> message]),
           llmDown[a], documents)

\* "Create initial analysis record", then "Step 1: Classify document"
Created(a, rid) ==
    Commit(a, "classifying", NewAnalysis(rid),
           [NoRun EXCEPT !.request_id = rid,
                         !.redactedText = OrEmpty(documentRows[rid][1].redacted_content)],
           <<"classifyDocument">>, NoResponse, llmDown[a], documents)

\* steps 4 and 5 begin once queryRules has returned; an error it throws goes
\* to the catch block, which logs it and calls next(error)
AfterRetrieval(a, row, locals, log, down, query, result) ==
    IF result.threw
    THEN Commit(a, "done", row, locals, log,
                errorHandler([isAppError |-> FALSE, message |-> result.message]),
                down, documents)
    ELSE Commit(a, "briefing", row,
                [locals EXCEPT
                    !.relevantRules = result.ids,
                    !.checklist = generateChecklist(locals.fieldExtraction.fields,
                                                    locals.classification.documentType,
                                                    rulesData(result))],
                log \o <<"generateChecklist", "generateNegotiationBrief">>,
                NoResponse, down, DocumentsAfterQuery(documents, query))

\* "Step 3: Query relevant rules using RAG"
Retrieval(a, row, locals, log, down, query) ==
    AfterRetrieval(a, row, locals, log \o <<"queryRules">>, down, query,
                   queryRules(collection, documents, query, RouteTopN))

\* the run goes on once extractFields has returned
AfterExtraction(a, row, locals, log, down) ==
    Retrieval(a, row, locals, log, down,
              ruleQuery(locals.classification.documentType,
                        locals.fieldExtraction.fields))

\* the early return of the abstaining branch left out: the run writes
\* completed_with_warnings and goes on
ClassifiedWithoutReturn(a, c, down) ==
    IF c.documentType \in ExtractableTypes
    THEN Commit(a, "extracting",
                IF c.shouldAbstain
                THEN AbstainedRow(ClassifiedRow(analysisRows[a], c), c)
                ELSE ClassifiedRow(analysisRows[a], c),
                [run[a] EXCEPT !.classification = c],
                calls[a] \o <<"extractFields">>, NoResponse, down, documents)
    ELSE AfterExtraction(a,
                         IF c.shouldAbstain
                         THEN AbstainedRow(ClassifiedRow(analysisRows[a], c), c)
                         ELSE ClassifiedRow(analysisRows[a], c),
                         [run[a] EXCEPT !.classification = c,
                                        !.fieldExtraction = ExtractionFailed],
                         calls[a] \o <<"extractFields">>, down)

\* the run goes on once classifyDocument has returned c: it ends when c
\* abstains; else extractFields is called, which returns at once for a type
\* it has no prompt for
Classified(a, c, down) ==
    IF c.shouldAbstain
    THEN Commit(a, "done", AbstainedRow(ClassifiedRow(analysisRows[a], c), c),
                [run[a] EXCEPT !.classification = c], calls[a],
                AbstainResponse, down, documents)
    ELSE IF c.documentType \in ExtractableTypes
    THEN Commit(a, "extracting", ClassifiedRow(analysisRows[a], c),
                [run[a] EXCEPT !.classification = c],
                calls[a] \o <<"extractFields">>, NoResponse, down, documents)
    ELSE AfterExtraction(a, ClassifiedRow(analysisRows[a], c),
                         [run[a] EXCEPT !.classification = c,
                                        !.fieldExtraction = ExtractionFailed],
                         calls[a] \o <<"extractFields">>, down)

\* the stored documents and the variables of the other services
AnalysisFrame ==
    /\ UNCHANGED <<documentRows, collection, queryCalls, queryArg, queryResult,
                   firstCall>>
    /\ UNCHANGED <<redactVars, containsVars, checklistVars, ingestVars>>

\* POST /api/analyze {request_id: rid} arrives and runs up to its first await
StartAnalysis(a, rid) ==
    /\ pc[a] = "idle"
    /\ IF ~ValidRequestId(rid)
       THEN Rejected(a, 400, "\"request_id\" must be a valid GUID")
       ELSE IF documentRows[rid] = <<>>
       THEN Rejected(a, 404, <<"No documents found for request_id: ", rid>>)
       ELSE Created(a, rid)
    /\ AnalysisFrame

\* the LLM call of classifyDocument comes to outcome
ClassifyReturns(a, outcome) ==
    /\ pc[a] = "classifying"
    /\ Classified(a, classifyDocument(outcome),
                  llmDown[a] \/ outcome.kind \in LlmFailures)
    /\ AnalysisFrame

\* the LLM call of extractFields comes to outcome
ExtractReturns(a, outcome) ==
    /\ pc[a] = "extracting"
    /\ AfterExtraction(a, analysisRows[a],
                       [run[a] EXCEPT !.fieldExtraction = extractFields(outcome)],
                       calls[a], llmDown[a] \/ outcome.kind \in LlmFailures)
    /\ AnalysisFrame

\* generateNegotiationBrief called again when its call of the LLM failed
BriefReturnsWithRetry(a, outcome) ==
    /\ pc[a] = "briefing"
    /\ IF outcome.kind \in LlmFailures
       THEN Commit(a, "briefing", analysisRows[a], run[a],
                   calls[a] \o <<"generateNegotiationBrief">>, NoResponse,
                   TRUE, documents)
       ELSE Commit(a, "emailing", analysisRows[a],
                   [run[a] EXCEPT !.negotiationBrief = generateNegotiationBrief(outcome)],
                   calls[a] \o <<"generateClientEmail">>, NoResponse,
                   llmDown[a], documents)
    /\ AnalysisFrame

\* the LLM call of generateNegotiationBrief comes to outcome
BriefReturns(a, outcome) ==
    /\ pc[a] = "briefing"
    /\ Commit(a, "emailing", analysisRows[a],
              [run[a] EXCEPT !.negotiationBrief = generateNegotiationBrief(outcome)],
              calls[a] \o <<"generateClientEmail">>, NoResponse,
              llmDown[a] \/ outcome.kind \in LlmFailures, documents)
    /\ AnalysisFrame

\* the LLM call of generateClientEmail comes to outcome
EmailReturns(a, outcome) ==
    /\ pc[a] = "emailing"
    /\ Commit(a, "done",
              CompletedRow(analysisRows[a], run[a], generateClientEmail(outcome)),
              run[a], calls[a], SuccessResponse,
              llmDown[a] \/ outcome.kind \in LlmFailures, documents)
    /\ AnalysisFrame

\* the document types and the confidences a response of the classifier names
ResponseTypes == {"", "company_profile", "pricing_sheet"}

ResponseConfidences == {Undefined, Num(65), Num(80)}

Refused == [kind |-> "refused"]

TimedOut == [kind |-> "timeout"]

\* what the LLM call of the classifier can come to
ClassifierOutcomes ==
    {Refused, TimedOut, [kind |-> "text", text |-> "no JSON"]}
        \cup { [kind |-> "json",
                json |-> [documentType |-> type, confidence |-> confidence,
                          reasoning |-> "reasoning"]] :
               type \in ResponseTypes, confidence \in ResponseConfidences }

\* what the LLM call of the extractor can come to
ExtractorOutcomes ==
    { Refused, TimedOut, [kind |-> "text", text |-> "no JSON"],
      [kind |-> "json", json |-> NoFieldMap],
      [kind |-> "json",
       json |-> [name \in FieldNames |->
                    CASE name = "UEI" ->
                            Str(<<"A", "1", "B", "2", "C", "3", "D", "4", "E", "5", "F", "6">>)
                      [] name = "NAICS_codes" ->
                            Arr(<<Str(<<"5", "4", "1", "5", "1", "2">>)>>)
                      [] name = "contract_value" -> Num(50000)
                      [] name = "labor_categories" -> Arr(<<Str(<<"x">>)>>)]] }

\* what an LLM call of a generator can come to
GeneratorOutcomes == {Refused, TimedOut, [kind |-> "text", text |-> "prose"]}

\* the documents table: request r1 has one stored document
StoredDocuments ==
    [rid \in RequestIds |->
        IF rid = "r1" THEN <<[redacted_content |-> Str(<<"d", "o", "c">>)]>>
        ELSE <<>>]

\* the tables and the runs before any request
NoAnalysisStarted ==
    /\ documentRows = StoredDocuments
    /\ analysisRows = [a \in AnalysisIds |-> NoRow]
    /\ pc = [a \in AnalysisIds |-> "idle"]
    /\ run = [a \in AnalysisIds |-> NoRun]
    /\ calls = [a \in AnalysisIds |-> <<>>]
    /\ response = [a \in AnalysisIds |-> NoResponse]
    /\ llmDown = [a \in AnalysisIds |-> FALSE]

\* The router is mounted when its module is loaded; the store is set by
\* initializeVectorStore.
InitAnalyze ==
    /\ NoAnalysisStarted
    /\ IngestIdle
    /\ RetrieveIdle
    /\ RedactIdle
    /\ ContainsIdle
    /\ ChecklistIdle

NextAnalyze ==
    \/ InitializeVectorStore
    \/ \E a \in AnalysisIds, rid \in RequestIds : StartAnalysis(a, rid)
    \/ \E a \in AnalysisIds, outcome \in ClassifierOutcomes : ClassifyReturns(a, outcome)
    \/ \E a \in AnalysisIds, outcome \in ExtractorOutcomes : ExtractReturns(a, outcome)
    \/ \E a \in AnalysisIds, outcome \in GeneratorOutcomes : BriefReturns(a, outcome)
    \/ \E a \in AnalysisIds, outcome \in GeneratorOutcomes : EmailReturns(a, outcome)

SpecAnalyze == InitAnalyze /\ [][NextAnalyze]_vars

\* run a has got past its classification
PastClassification(a) == pc[a] \notin {"idle", "classifying"} /\ analysisRows[a] # NoRow

\* C18: a run whose classification carries a confidence below the threshold
\* ends right after the classification: its record is completed_with_warnings
\* with no checklist, and classifyDocument is the only capability it called.
C18_LowConfidenceStopsTheRun ==
    \A a \in AnalysisIds :
        (PastClassification(a)
            /\ JsLessThan(run[a].classification.confidence, CONFIDENCE_THRESHOLD)) =>
            /\ pc[a] = "done"
            /\ analysisRows[a].status = "completed_with_warnings"
            /\ analysisRows[a].checklist_items = Null
            /\ calls[a] = <<"classifyDocument">>

\* C19: once the request of a run that created its record is answered, the
\* record is no longer processing, and when the answer is an error the record
\* is failed with the error message recorded.
C19_ErrorLeavesRecordFailed ==
    \A a \in AnalysisIds :
        (response[a] # NoResponse /\ analysisRows[a] # NoRow) =>
            /\ analysisRows[a].status # "processing"
            /\ response[a].status = "error" =>
                   /\ analysisRows[a].status = "failed"
                   /\ analysisRows[a].error_message # Null

\* C20: a run in which a call of the LLM failed on the connection or timed
\* out ends with a failed record, an error answer and no checklist.
C20_UnavailableLlmFailsTheRun ==
    \A a \in AnalysisIds :
        (pc[a] = "done" /\ llmDown[a] /\ analysisRows[a] # NoRow) =>
            /\ analysisRows[a].status = "failed"
            /\ response[a].status = "error"
            /\ analysisRows[a].checklist_items = Null

\* the statuses at which a run leaves its record
TerminalStatuses == {"completed", "completed_with_warnings", "failed"}

\* C21: the status of an analysis record moves only from none to processing
\* and from processing to completed, completed_with_warnings or failed; a
\* record with one of these three statuses is changed by no later step, of
\* its own run or of another request.
C21_StatusMovesForwardOnce ==
    [][\A a \in AnalysisIds :
          /\ analysisRows[a].status \in TerminalStatuses =>
                 analysisRows'[a] = analysisRows[a]
          /\ analysisRows'[a].status # analysisRows[a].status =>
                 \/ /\ analysisRows[a].status = "none"
                    /\ analysisRows'[a].status = "processing"
                 \/ /\ analysisRows[a].status = "processing"
                    /\ analysisRows'[a].status \in TerminalStatuses]_vars

\* one run completed and another run for the same request_id ran to its end
\* with another outcome
C21_Witness ==
    /\ analysisRows["a1"].status = "completed"
    /\ analysisRows["a2"].status = "completed_with_warnings"
    /\ analysisRows["a1"].request_id = analysisRows["a2"].request_id
    /\ pc["a1"] = "done"
    /\ pc["a2"] = "done"

\* C27: verifyRedaction called with a text and the redactedText redactPII
\* returned for it reports isComplete with no remaining PII.
C27_RedactThenVerifyIsComplete ==
    verification.done =>
        /\ verification.isComplete
        /\ verification.remainingPII = <<>>

\* a non-empty word of q, in lower case, is a substring of the body or of the
\* title of the k-th rule of the corpus, in lower case
HoldsAQueryWord(k, q) ==
    \E span \in WordSpans(q) :
        \/ Includes(toLowerCase(GSA_RULES[k].content),
                    toLowerCase(SubSeq(q, span[1], span[2])))
        \/ Includes(toLowerCase(GSA_RULES[k].title),
                    toLowerCase(SubSeq(q, span[1], span[2])))

\* C29: every rule queryRules returns holds a non-empty word of the query in
\* its body or its title; a query without a word returns no rule.
C29_ReturnedRulesHoldAQueryWord ==
    (queryCalls > 0 /\ ~queryResult.threw) =>
        \A i \in DOMAIN queryResult.ids :
            \E k \in DOMAIN GSA_RULES :
                /\ GSA_RULES[k].id = queryResult.ids[i]
                /\ HoldsAQueryWord(k, queryArg.query)

\* the rules a run alone gets for its classification and its fields from the
\* corpus as initializeVectorStore loads it
SoloRules(a) ==
    queryRules(TRUE, VectorDocuments(GSA_RULES),
               ruleQuery(run[a].classification.documentType,
                         run[a].fieldExtraction.fields),
               RouteTopN)

\* the checklist a run alone derives from its fields and those rules
SoloChecklist(a, rules) ==
    generateChecklist(run[a].fieldExtraction.fields,
                      run[a].classification.documentType,
                      rulesData(rules))

\* the results a completed record holds are those of its run alone
SoloResults(a, rules) ==
    /\ analysisRows[a].checklist_items = Json(SoloChecklist(a, rules))
    /\ analysisRows[a].rule_citations = Json(rules.ids)
    /\ analysisRows[a].negotiation_brief = TextValue(run[a].negotiationBrief)
    /\ analysisRows[a].client_email
           \in {TextValue(EmailFallback), TextValue("prose")}

\* the record of run a holds what the run alone writes from the answers it
\* got
SoloRecord(a) ==
    /\ analysisRows[a].request_id = run[a].request_id
    /\ IF pc[a] = "classifying"
       THEN analysisRows[a] = NewAnalysis(run[a].request_id)
       ELSE /\ analysisRows[a].document_classification
                   = TextValue(run[a].classification.documentType)
            /\ analysisRows[a].classification_confidence
                   = run[a].classification.confidence
    /\ analysisRows[a].status = "completed_with_warnings" =>
           analysisRows[a] = AbstainedRow(ClassifiedRow(NewAnalysis(run[a].request_id),
                                                        run[a].classification),
                                          run[a].classification)
    /\ analysisRows[a].status = "completed" => SoloResults(a, SoloRules(a))

\* a step leaves the record and the locals of every run it is not a step of
\* as they are, and the corpus as it is
OwnRecordOnly ==
    /\ \A a \in AnalysisIds :
           pc'[a] = pc[a] => (analysisRows'[a] = analysisRows[a] /\ run'[a] = run[a])
    /\ collection => documents' = documents

\* C23: in every interleaving of two runs a step of a run writes the record
\* of that run only, each record holds what its run alone would have written
\* from the answers it got, and the rule corpus stays as it was loaded.
C23_RunsAreIndependent ==
    /\ [](\A a \in AnalysisIds : analysisRows[a] # NoRow => SoloRecord(a))
    /\ [](collection => documents = VectorDocuments(GSA_RULES))
    /\ [][OwnRecordOnly]_vars

\* two runs for the same request_id are in flight at different stages with
\* different checklists
C23_Witness ==
    /\ pc["a1"] = "emailing"
    /\ pc["a2"] = "briefing"
    /\ run["a1"].request_id = run["a2"].request_id
    /\ run["a1"].checklist # run["a2"].checklist

\* the capabilities of a run in the order of the route
Stages ==
    <<"classifyDocument", "extractFields", "queryRules", "generateChecklist",
      "generateNegotiationBrief", "generateClientEmail">>

ResultColumns(row) ==
    <<row.checklist_items, row.rule_citations, row.negotiation_brief,
      row.client_email>>

\* C25: a completed record has its classification, its confidence and its
\* four result columns set; a record that is processing or
\* completed_with_warnings has the four result columns null.
C25_ColumnsFollowStatus ==
    \A a \in AnalysisIds :
        /\ analysisRows[a].status = "completed" =>
               /\ analysisRows[a].document_classification # Null
               /\ analysisRows[a].classification_confidence # Null
               /\ \A k \in 1 .. 4 : ResultColumns(analysisRows[a])[k] # Null
        /\ analysisRows[a].status \in {"processing", "completed_with_warnings"} =>
               \A k \in 1 .. 4 : ResultColumns(analysisRows[a])[k] = Null

\* a completed record next to one that is processing with its classification
\* written
C25_Witness ==
    /\ analysisRows["a1"].status = "completed"
    /\ analysisRows["a2"].status = "processing"
    /\ pc["a2"] = "extracting"
    /\ analysisRows["a2"].document_classification # Null

\* C30: the shouldAbstain flag of a classification is true exactly when the
\* confidence of the same result is below the threshold, and no run invokes
\* extractFields with a recorded confidence below the threshold.
C30_AbstainsIffBelowThreshold ==
    \A a \in AnalysisIds :
        PastClassification(a) =>
            /\ run[a].classification.shouldAbstain
                   <=> JsLessThan(run[a].classification.confidence,
                                  CONFIDENCE_THRESHOLD)
            /\ Len(calls[a]) > 1 =>
                   ~JsLessThan(analysisRows[a].classification_confidence,
                               CONFIDENCE_THRESHOLD)

-----------------------------------------------------------------------------
(* Ingestion: POST /api/ingest, followed by the analysis of what it stored. *)
(*                                                                         *)
(* An ingest request is named by the requestId the route draws for it. The *)
(* route awaits parseDocument only, before it writes anything, so a        *)
(* request is one step.                                                    *)

\* no file received under this requestId
NoUpload == [kind |-> "nothing"]

\* the uuid the route draws as documentId, and the uuid
\* DocumentRepository.create draws as the id of the row: two draws
RouteDocumentId(rid) == <<"documentId", rid>>

RowId(rid) == <<"id", rid>>

\* the row with the parsed text stored as it came
DocumentRowUnredacted(rid, t, result) ==
    [id |-> RowId(rid),
     request_id |-> rid,
     original_hash |-> hashValue(t),
     redacted_content |-> Str(t)]

\* the row DocumentRepository.create inserts: it draws the id itself
DocumentRow(rid, t, result) ==
    [id |-> RowId(rid),
     request_id |-> rid,
     original_hash |-> hashValue(t),
     redacted_content |-> Str(result.redactedText)]

\* redactionResult.matches.map(match => ({document_id: documentId, ...}))
AuditRows(documentId, found) ==
    [k \in DOMAIN found |->
        [document_id |-> documentId,
         redaction_type |-> found[k].type,
         original_value_hash |-> found[k].hash,
         position_start |-> found[k].start,
         position_end |-> found[k].end]]

\* the documents table holds a row of this id
HasDocument(docRows, id) ==
    \E rid \in DOMAIN docRows : \E k \in DOMAIN docRows[rid] : docRows[rid][k].id = id

\* RedactionRepository.bulkCreate: one transaction; redactions.document_id
\* REFERENCES documents(id) with foreign_keys = ON, so a row naming no
\* document makes the insert throw and the transaction roll back
bulkCreate(table, rows, docRows) ==
    IF \A k \in DOMAIN rows : HasDocument(docRows, rows[k].document_id)
    THEN [threw |-> FALSE, table |-> table \o rows]
    ELSE [threw |-> TRUE, table |-> table]

\* the answer to an ingest that went through
IngestSuccess(rid, result) ==
    [code |-> 200, status |-> "success",
     message |-> "Document ingested and redacted successfully",
     documentId |-> RouteDocumentId(rid),
     requestId |-> rid,
     redactionCount |-> result.redactionCount]

\* what an ingest request leaves behind
Ingested(rid, upload, docRows, table, resp) ==
    /\ uploads' = [uploads EXCEPT ![rid] = upload]
    /\ documentRows' = docRows
    /\ redactionRows' = table
    /\ ingestResponse' = [ingestResponse EXCEPT ![rid] = resp]

\* the request is refused with an AppError before anything is written
IngestRefused(rid, upload, message) ==
    Ingested(rid, upload, documentRows, redactionRows,
             errorHandler([isAppError |-> TRUE, statusCode |-> 400,
                           message |-> message]))

\* "Store redactions", and the answer: an error of bulkCreate goes to
\* next(error)
RedactionsStored(rid, upload, docRows, result, stored) ==
    Ingested(rid, upload, docRows, stored.table,
             IF stored.threw
             THEN errorHandler([isAppError |-> FALSE,
                                message |-> "FOREIGN KEY constraint failed"])
             ELSE IngestSuccess(rid, result))

\* "Store document in database", then the redactions if there are any
DocumentStored(rid, upload, docRows, result) ==
    RedactionsStored(rid, upload, docRows, result,
                     IF Len(result.matches) > 0
                     THEN bulkCreate(redactionRows,
                                     AuditRows(RouteDocumentId(rid), result.matches),
                                     docRows)
                     ELSE [threw |-> FALSE, table |-> redactionRows])

\* "Redact PII" of the parsed text and what follows
Parsed(rid, upload, t, result) ==
    DocumentStored(rid, upload,
                   [documentRows EXCEPT
                       ![rid] = Append(@, DocumentRow(rid, t, result))],
                   result)

\* POST /api/ingest with the upload: multer's fileFilter, the checks of the
\* handler, parseDocument, redactPII and the two repositories
Ingest(rid, upload) ==
    /\ ValidRequestId(rid)
    /\ uploads[rid] = NoUpload
    /\ CASE upload.kind = "unsupported" ->
                IngestRefused(rid, upload, "File type not supported")
         [] upload.kind = "none" ->
                IngestRefused(rid, upload, "No document provided")
         [] upload.kind = "oversize" ->
                IngestRefused(rid, upload,
                              "File size exceeds maximum allowed size of 10MB")
         [] upload.kind = "unparsable" ->
                IngestRefused(rid, upload, "Failed to parse PDF")
         [] OTHER -> Parsed(rid, upload, upload.text, redactPII(upload.text))
    /\ UNCHANGED <<analysisRows, pc, run, calls, response, llmDown>>
    /\ UNCHANGED <<redactVars, containsVars, checklistVars, retrieveVars>>

\* the texts of the files ingested: an empty one, one without PII, one with
\* an email address, one with an email address and a social security number
IngestTexts ==
    { <<>>,
      <<"-">>,
      <<"a", "@", "b", ".", "c", "o">>,
      <<"a", "@", "b", ".", "c", "o", "-",
        "1", "2", "3", "4", "5", "6", "7", "8", "9">> }

Uploads ==
    {[kind |-> kind] : kind \in {"unsupported", "none", "oversize", "unparsable"}}
        \cup {[kind |-> "text", text |-> t] : t \in IngestTexts}

\* the run that analyses what was ingested
IngestRuns == {"a1"}

\* the server as it starts: empty tables, the store initialized
InitIngest ==
    /\ uploads = [rid \in RequestIds |-> NoUpload]
    /\ documentRows = [rid \in RequestIds |-> <<>>]
    /\ redactionRows = <<>>
    /\ ingestResponse = [rid \in RequestIds |-> NoResponse]
    /\ analysisRows = [a \in AnalysisIds |-> NoRow]
    /\ pc = [a \in AnalysisIds |-> "idle"]
    /\ run = [a \in AnalysisIds |-> NoRun]
    /\ calls = [a \in AnalysisIds |-> <<>>]
    /\ response = [a \in AnalysisIds |-> NoResponse]
    /\ llmDown = [a \in AnalysisIds |-> FALSE]
    /\ StoreInitialized
    /\ queryCalls = 0
    /\ queryArg = NoQuery
    /\ queryResult = NoResult
    /\ firstCall = NoCall
    /\ RedactIdle
    /\ ContainsIdle
    /\ ChecklistIdle

NextIngest ==
    \/ \E rid \in RequestIds, upload \in Uploads : Ingest(rid, upload)
    \/ \E a \in IngestRuns, rid \in RequestIds : StartAnalysis(a, rid)
    \/ \E a \in IngestRuns, outcome \in ClassifierOutcomes : ClassifyReturns(a, outcome)
    \/ \E a \in IngestRuns, outcome \in ExtractorOutcomes : ExtractReturns(a, outcome)
    \/ \E a \in IngestRuns, outcome \in GeneratorOutcomes : BriefReturns(a, outcome)
    \/ \E a \in IngestRuns, outcome \in GeneratorOutcomes : EmailReturns(a, outcome)

SpecIngest == InitIngest /\ [][NextIngest]_vars

\* an ingest request under this requestId carried a file that parsed to t
Carried(rid, t) == uploads[rid].kind = "text" /\ uploads[rid].text = t

\* C22: an ingest whose parsed text is empty is answered with an error and
\* stores no document, and no run hands an empty text to classifyDocument.
C22_EmptyTextIsRejected ==
    /\ \A rid \in RequestIds :
           Carried(rid, <<>>) =>
               /\ documentRows[rid] = <<>>
               /\ ingestResponse[rid].status = "error"
    /\ \A a \in AnalysisIds : calls[a] # <<>> => run[a].redactedText # <<>>

\* the argument of classifyDocument and of extractFields in run a
TextHandedToLlm(a) == run[a].redactedText

\* the document stored for the request holds the redactedText of redactPII
\* for the parsed text t, and not t when redactPII found a match in it
StoredRedacted(rid, t, result) ==
    /\ Len(documentRows[rid]) = 1
    /\ documentRows[rid][1].redacted_content = Str(result.redactedText)
    /\ Len(result.matches) > 0 => documentRows[rid][1].redacted_content # Str(t)

\* run a was handed the redactedText of redactPII for the parsed text t of
\* its request, and not t when redactPII found a match in it
HandedRedacted(a, t, result) ==
    /\ TextHandedToLlm(a) = result.redactedText
    /\ Len(result.matches) > 0 => TextHandedToLlm(a) # t

\* C26: a stored document holds the redactedText redactPII returned for the
\* parsed text at ingestion, the text handed to classifyDocument and
\* extractFields is that stored redacted_content, and where redactPII found a
\* match neither is the parsed text.
C26_LlmGetsStoredRedactedContent ==
    /\ \A rid \in RequestIds :
           documentRows[rid] # <<>> =>
               /\ uploads[rid].kind = "text"
               /\ StoredRedacted(rid, uploads[rid].text, redactPII(uploads[rid].text))
    /\ \A a \in AnalysisIds :
           calls[a] # <<>> =>
               /\ TextHandedToLlm(a)
                      = OrEmpty(documentRows[run[a].request_id][1].redacted_content)
               /\ HandedRedacted(a, uploads[run[a].request_id].text,
                                 redactPII(uploads[run[a].request_id].text))

\* a run called extractFields on a document in which redactPII found two
\* matches
C26_Witness ==
    /\ Len(calls["a1"]) >= 2
    /\ uploads[run["a1"].request_id].kind = "text"
    /\ Len(redactPII(uploads[run["a1"].request_id].text).matches) = 2

\* the audit rows that name the document row stored for the request
AuditRowsOf(rid) ==
    {k \in DOMAIN redactionRows :
        redactionRows[k].document_id = documentRows[rid][1].id}

\* the ingest of a text with k matches stored the document, k audit rows
\* naming it, and answered with its id
AuditComplete(rid, k) ==
    /\ Len(documentRows[rid]) = 1
    /\ Cardinality(AuditRowsOf(rid)) = k
    /\ ingestResponse[rid].status = "success"
    /\ ingestResponse[rid].documentId = documentRows[rid][1].id

\* C28: after the ingest of a text with k >= 1 PII matches there are k audit
\* rows that name the document row the ingest stored, and the documentId of
\* the answer is the id of that row.
C28_AuditRowsNameTheStoredDocument ==
    \A rid \in RequestIds :
        (uploads[rid].kind = "text"
            /\ Len(redactPII(uploads[rid].text).matches) >= 1) =>
            AuditComplete(rid, Len(redactPII(uploads[rid].text).matches))

=============================================================================
